---- MODULE Spec2Model ----
(***************************************************************************)
(* Pico NAND Flasher: the framed host<->device transport, the host's       *)
(* resumable READ / WRITE / ERASE engine (src/main/src/hardware/           *)
(* nand_controller.py) and the device's operation engine in a framed       *)
(* session (src/main/pico/main_performance.py), the text firmware          *)
(* (src/main/pico/main.py), the start-up of both firmwares, the host's     *)
(* page verification (src/main/src/utils/ecc.py), the device's CRC32 and   *)
(* run-length routines, the bus driver's control pins, and the chip        *)
(* registry with its lookup.                                               *)
(*                                                                         *)
(* Bytes are integers 0..255.  A 32-bit value (a CRC32, a length, an index) *)
(* is kept as its four little-endian bytes, so no value exceeds the        *)
(* integer range.                                                          *)
(* Page geometry is scaled down (a page of a few bytes), and so are the    *)
(* host's periodic checkpoint periods; every such number is a named        *)
(* definition.                                                             *)
(***************************************************************************)
EXTENDS Integers, Sequences, FiniteSets, TLC

VARIABLES
    resumeFile,  \* host: contents of resume.json (exists = FALSE: no file)
    host,        \* host: locals of the running read_nand / write_nand / erase_nand
    wire,        \* what the device has written to the UART: bytes the host has
                 \* not consumed yet (host runs), a log of emissions (device)
    toDev,       \* what the host has written to the serial port, one entry per write
    scenario,    \* the inputs of the run (stream layout, data, configuration)
    codec,       \* frame codec: one frame built, damaged in transit, read back
    dev          \* device: state of NANDFlasher in a framed session

vars == <<resumeFile, host, wire, toDev, scenario, codec, dev>>

(***************************************************************************)
(* Sequence helpers                                                        *)
(***************************************************************************)
Take(s, n) == SubSeq(s, 1, n)
Drop(s, n) == SubSeq(s, n + 1, Len(s))
Min(a, b) == IF a < b THEN a ELSE b

RECURSIVE Flatten(_)
Flatten(ss) == IF ss = <<>> THEN <<>> ELSE Head(ss) \o Flatten(Tail(ss))

(***************************************************************************)
(* Protocol constants (NANDController.__init__)                            *)
(***************************************************************************)
MAGIC == <<80, 70>>          \* b'PF'
CMD_STATUS == 1
CMD_READ == 2
CMD_WRITE == 3
CMD_ERASE == 4
CMD_PROGRESS == 16
CMD_READY_FOR_DATA == 17
CMD_COMPLETE == 18
CMD_ERROR == 19
CMD_MODEL == 20
CMD_POWER_WARNING == 21
CMD_PAGE_CRC == 22

CommandCodes == {CMD_STATUS, CMD_READ, CMD_WRITE, CMD_ERASE, CMD_PROGRESS,
                 CMD_READY_FOR_DATA, CMD_COMPLETE, CMD_ERROR, CMD_MODEL,
                 CMD_POWER_WARNING, CMD_PAGE_CRC}

(***************************************************************************)
(* 32-bit arithmetic on little-endian byte quadruples, and CRC32           *)
(***************************************************************************)
\* a ^ b of two 4-bit values, bit by bit
XorBits(a, b) ==
    LET bit(i) == (((a \div (2^i)) + (b \div (2^i))) % 2) * (2^i)
    IN  bit(0) + bit(1) + bit(2) + bit(3)

\* The same as a table (\o <<>> makes it an explicit tuple, computed once)
XorNibble == [a \in 1..16 |-> [b \in 1..16 |-> XorBits(a - 1, b - 1)] \o <<>>] \o <<>>

\* a ^ b of two bytes
XorByte(a, b) ==
    16 * XorNibble[(a \div 16) + 1][(b \div 16) + 1]
    + XorNibble[(a % 16) + 1][(b % 16) + 1]

U32 == [1..4 -> 0..255]
Xor32(x, y) ==
    <<XorByte(x[1], y[1]), XorByte(x[2], y[2]), XorByte(x[3], y[3]), XorByte(x[4], y[4])>>
Shr1(x) ==
    <<(x[1] \div 2) + 128 * (x[2] % 2), (x[2] \div 2) + 128 * (x[3] % 2),
      (x[3] \div 2) + 128 * (x[4] % 2), x[4] \div 2>>
Shr8(x) == <<x[2], x[3], x[4], 0>>
AllOnes == <<255, 255, 255, 255>>                  \* 0xFFFFFFFF
POLY == <<32, 131, 184, 237>>                      \* 0xEDB88320

\* struct.pack('<I', n) of a small natural number (n < 65536)
PackLen(n) == <<n % 256, (n \div 256) % 256, 0, 0>>

\* One round of the inner loop of NANDFlasher._crc32
CrcRound(c) == IF c[1] % 2 = 1 THEN Xor32(Shr1(c), POLY) ELSE Shr1(c)

\* n rounds (the loop "for _ in range(8)")
CrcRounds[n \in 0..8, c \in U32] ==
    IF n = 0 THEN c ELSE CrcRounds[n - 1, CrcRound(c)]

\* NANDFlasher._crc32 (device): bitwise CRC32, as four little-endian bytes.
Dev_crc32(data) ==
    LET loop[i \in 1..(Len(data) + 1), c \in U32] ==
            IF i > Len(data) THEN c
            ELSE loop[i + 1, CrcRounds[8, <<XorByte(c[1], data[i]), c[2], c[3], c[4]>>]]
    IN  Xor32(loop[1, AllOnes], AllOnes)

\* zlib's table: entry n is n taken through eight rounds
CrcTable == [n \in 1..256 |-> CrcRounds[8, <<n - 1, 0, 0, 0>>]] \o <<>>

\* zlib.crc32(data) & 0xFFFFFFFF (host): the IEEE CRC32, computed byte-wise
\* through the table entry of the low byte, as four little-endian bytes.
Crc32(data) ==
    LET loop[i \in 1..(Len(data) + 1), c \in U32] ==
            IF i > Len(data) THEN c
            ELSE loop[i + 1, Xor32(CrcTable[XorByte(c[1], data[i]) + 1], Shr8(c))]
    IN  Xor32(loop[1, AllOnes], AllOnes)

(***************************************************************************)
(* Frame encoder and reader                                                *)
(***************************************************************************)
\* NANDController._frame: MAGIC + CMD + LEN(4 LE) + PAYLOAD + CRC32(4 LE)
Frame(cmd, payload) ==
    LET header == <<cmd>> \o PackLen(Len(payload))
    IN  MAGIC \o header \o payload \o Crc32(header \o payload)

\* NANDFlasher._send_frame (device): the same layout with the device's CRC
DevFrame(cmd, payload) ==
    LET header == <<cmd>> \o PackLen(Len(payload))
    IN  MAGIC \o header \o payload \o Dev_crc32(header \o payload)

\* NANDController._read_exact on a link on which nothing more arrives: n bytes
\* when they are there; otherwise what is there is consumed and the call
\* times out (ok = FALSE).
ReadExact(buf, n) ==
    IF Len(buf) >= n
    THEN [ok |-> TRUE, data |-> Take(buf, n), rest |-> Drop(buf, n)]
    ELSE [ok |-> FALSE, data |-> <<>>, rest |-> <<>>]

\* The byte positions at which a MAGIC ends
MagicEnds(buf) == {i \in 2..Len(buf) : buf[i - 1] = MAGIC[1] /\ buf[i] = MAGIC[2]}

NoFrame == <<>>

\* NANDController._read_frame: seek MAGIC, read CMD + LEN, the payload and the
\* CRC; None (NoFrame) on timeout or CRC mismatch.  The length is a u32; it is
\* compared by halves (hi, lo), a length of 65536 or more exceeding any link
\* content of the model.
ReadFrame(buf) ==
    IF MagicEnds(buf) = {}
    THEN [frame |-> NoFrame, rest |-> <<>>]
    ELSE
      LET m   == CHOOSE i \in MagicEnds(buf) : \A j \in MagicEnds(buf) : i <= j
          hdr == ReadExact(Drop(buf, m), 5)
      IN  IF ~hdr.ok THEN [frame |-> NoFrame, rest |-> <<>>]
          ELSE
            LET lo  == hdr.data[2] + 256 * hdr.data[3]
                hi  == hdr.data[4] + 256 * hdr.data[5]
                pay == IF hi = 0 THEN ReadExact(hdr.rest, lo)
                       ELSE [ok |-> FALSE, data |-> <<>>, rest |-> <<>>]
                trl == ReadExact(pay.rest, 4)
            IN  IF ~pay.ok \/ ~trl.ok THEN [frame |-> NoFrame, rest |-> <<>>]
                ELSE IF trl.data # Crc32(hdr.data \o pay.data)
                     THEN [frame |-> NoFrame, rest |-> trl.rest]
                     ELSE [frame |-> <<hdr.data[1], pay.data>>, rest |-> trl.rest]

(***************************************************************************)
(* Little-endian fields of payloads                                        *)
(***************************************************************************)
\* int.from_bytes(b, 'little') of up to four bytes (values of the model are small)
FromBytes(b) ==
    LET at(i) == IF i <= Len(b) THEN b[i] ELSE 0
    IN  at(1) + 256 * at(2) + 65536 * at(3) + 16777216 * at(4)

\* struct.pack('<I', n) of a small natural number
PackIdx(n) == PackLen(n)

\* bytes([progress & 0xFF, (progress >> 8) & 0xFF])
PackPercent(n) == <<n % 256, (n \div 256) % 256>>

\* Python's data[a:b] for b >= 0 (a negative start counts from the end)
PySlice(data, a, b) ==
    LET n  == Len(data)
        lo == IF a < 0 THEN (IF a + n < 0 THEN 0 ELSE a + n) ELSE Min(a, n)
        hi == Min(b, n)
    IN  IF lo >= hi THEN <<>> ELSE SubSeq(data, lo + 1, hi)

(***************************************************************************)
(* Host: resume.json and the dictionary read_nand / write_nand /           *)
(* erase_nand keep of it.  A key that is absent reads Absent (NoCrc for    *)
(* the two CRC keys); the timestamp and model keys carry no behaviour and  *)
(* are left out.                                                           *)
(***************************************************************************)
Absent == -1
NoCrc == <<>>

EmptyDict == [operation |-> "none", last_page |-> Absent, page_crc32 |-> NoCrc,
              bytes_sent |-> Absent, chunk_crc32 |-> NoCrc, erase_block |-> Absent]

FileAbsent == [exists |-> FALSE, state |-> EmptyDict]

\* _load_resume_state: the stored dictionary, {} when there is no file
LoadResumeState(file) == IF file.exists THEN file.state ELSE EmptyDict

\* _save_resume_state: the file now holds the dictionary
SaveResumeState(state) == [exists |-> TRUE, state |-> state]

\* clear_resume_state: the file is unlinked
ClearResumeState == FileAbsent

\* resume.get(key, 0) of an integer key
GetInt(v) == IF v = Absent THEN 0 ELSE v

(***************************************************************************)
(* Host: geometry and configuration.  Sizes are scaled: PAGE_4K stands for *)
(* the 4096-byte page, SPARE_DEFAULT for 64 and SPARE_4K for 128 spare     *)
(* bytes, CHECKPOINT_PAGES for the 64-page period of the READ checkpoint,  *)
(* CHUNK_SIZE for the configured chunk_size (4096) and CHECKPOINT_BYTES    *)
(* for the 1 MiB period of the WRITE checkpoint.                           *)
(***************************************************************************)
PAGE_4K == 4
SPARE_DEFAULT == 1
SPARE_4K == 2
CHECKPOINT_PAGES == 2
CHUNK_SIZE == 2
CHECKPOINT_BYTES == 4

\* spare_size = 128 if page_size == 4096 else 64
SpareSize(page_size) == IF page_size = PAGE_4K THEN SPARE_4K ELSE SPARE_DEFAULT

\* page_total = page_size + spare_size
PageTotal(page_size) == page_size + SpareSize(page_size)

(***************************************************************************)
(* Host: locals of the running operation.  sent, acked_percent,            *)
(* last_progress and checkpointed are history: the data bytes written to   *)
(* the port, the percent of the last PROGRESS read, the payload of the     *)
(* last PROGRESS read, and whether the last file operation of the run was  *)
(* a save.  So are compared (the loaded page_crc32 has been compared with  *)
(* a PAGE_CRC) and discarded (the number of DATA bytes dropped).           *)
(***************************************************************************)
NoResult == [ok |-> FALSE, data |-> <<>>]

HostIdle ==
    [pc |-> "idle", op |-> "none", frame |-> NoFrame,
     nand_data |-> <<>>, page_counter |-> 0, resume |-> EmptyDict,
     discard_pages |-> 0, resume_last_page |-> 0, resume_page_crc |-> NoCrc,
     bytes_to_discard |-> 0, include_oob |-> FALSE,
     start_offset |-> 0, i |-> 0, sent |-> <<>>,
     acked_percent |-> 0, last_progress |-> <<>>, checkpointed |-> FALSE,
     compared |-> FALSE, discarded |-> 0,
     result |-> NoResult, run |-> 1, first_data |-> <<>>]

\* return None / return False
Failed(h) == [h EXCEPT !.pc = "done", !.result = NoResult]

(***************************************************************************)
(* Host READ (read_nand, framed branch): the handlers of the receive loop  *)
(* as functions of the locals h and the file f.                            *)
(***************************************************************************)
\* lines 378-390: load the checkpoint and derive what to discard
ReadEnter(h, f, page_size) ==
    LET resume == LoadResumeState(f)
        isRead == resume.operation = "READ"
        last   == IF isRead THEN GetInt(resume.last_page) ELSE 0
    IN  [h EXCEPT !.pc = "read_loop", !.op = "READ", !.resume = resume,
                  !.nand_data = <<>>, !.page_counter = 0,
                  !.resume_last_page = last, !.discard_pages = last,
                  !.resume_page_crc = IF isRead THEN resume.page_crc32 ELSE NoCrc,
                  !.bytes_to_discard = last * PageTotal(page_size)]

\* cmd == CMD_PROGRESS
ReadOnProgress(h, f) ==
    LET payload == h.frame[2]
        resume  == [h.resume EXCEPT !.operation = "READ",
                                    !.last_page = FromBytes(SubSeq(payload, 3, 6))]
    IN  IF Len(payload) >= 6
        THEN [host |-> [h EXCEPT !.pc = "read_loop", !.resume = resume,
                                 !.checkpointed = TRUE],
              file |-> SaveResumeState(resume)]
        ELSE [host |-> [h EXCEPT !.pc = "read_loop"], file |-> f]

\* cmd == CMD_COMPLETE
ReadOnComplete(h, f) ==
    LET resume == [h.resume EXCEPT !.operation = "READ", !.last_page = h.page_counter]
    IN  [host |-> [h EXCEPT !.pc = "read_post", !.resume = resume,
                            !.checkpointed = TRUE],
         file |-> SaveResumeState(resume)]

\* cmd == CMD_PAGE_CRC
ReadOnPageCrc(h, f) ==
    LET payload  == h.frame[2]
        page_idx == FromBytes(SubSeq(payload, 1, 4))
        crc      == SubSeq(payload, 5, 8)
        resume   == [h.resume EXCEPT !.operation = "READ", !.last_page = page_idx,
                                     !.page_crc32 = crc]
        saved    == [h EXCEPT !.pc = "read_loop", !.resume = resume,
                              !.checkpointed = TRUE,
                              !.compared = @ \/ (h.resume_page_crc # NoCrc
                                                 /\ page_idx = h.resume_last_page)]
    IN  IF Len(payload) < 8
        THEN [host |-> [h EXCEPT !.pc = "read_loop"], file |-> f]
        ELSE IF h.resume_page_crc # NoCrc /\ page_idx = h.resume_last_page
                /\ h.resume_page_crc # crc
        THEN [host |-> [saved EXCEPT !.discard_pages = 0, !.resume_last_page = 0,
                                     !.resume_page_crc = NoCrc,
                                     !.bytes_to_discard = 0, !.nand_data = <<>>,
                                     !.checkpointed = FALSE],
              file |-> ClearResumeState]
        ELSE [host |-> saved, file |-> SaveResumeState(resume)]

\* A data branch that appends every payload whole
ReadOnDataKeepAll(h, f) ==
    [host |-> [h EXCEPT !.pc = "read_loop", !.nand_data = @ \o h.frame[2],
                        !.page_counter = @ + 1],
     file |-> f]

\* any other cmd: the payload is page data
ReadOnData(h, f) ==
    LET payload      == h.frame[2]
        nand_data    == IF h.bytes_to_discard > 0
                        THEN IF Len(payload) <= h.bytes_to_discard
                             THEN h.nand_data
                             ELSE h.nand_data \o Drop(payload, h.bytes_to_discard)
                        ELSE h.nand_data \o payload
        to_discard   == IF h.bytes_to_discard > 0 /\ Len(payload) <= h.bytes_to_discard
                        THEN h.bytes_to_discard - Len(payload)
                        ELSE 0
        page_counter == h.page_counter + 1
        periodic     == page_counter % CHECKPOINT_PAGES = 0
        resume       == IF periodic
                        THEN [h.resume EXCEPT !.operation = "READ",
                                              !.last_page = page_counter,
                                              !.page_crc32 = Crc32(payload)]
                        ELSE h.resume
    IN  [host |-> [h EXCEPT !.pc = "read_loop", !.nand_data = nand_data,
                            !.bytes_to_discard = to_discard,
                            !.discarded = @ + Len(h.nand_data) + Len(payload)
                                            - Len(nand_data),
                            !.page_counter = page_counter, !.resume = resume,
                            !.checkpointed = IF periodic THEN TRUE ELSE @],
         file |-> IF periodic THEN SaveResumeState(resume) ELSE f]

\* One pass of the body of "while True" after _read_frame has returned
ReadDispatch(h, f) ==
    IF h.frame = NoFrame THEN [host |-> Failed(h), file |-> f]
    ELSE IF h.frame[1] = CMD_PROGRESS THEN ReadOnProgress(h, f)
    ELSE IF h.frame[1] = CMD_COMPLETE THEN ReadOnComplete(h, f)
    ELSE IF h.frame[1] = CMD_ERROR THEN [host |-> Failed(h), file |-> f]
    ELSE IF h.frame[1] = CMD_PAGE_CRC THEN ReadOnPageCrc(h, f)
    ELSE ReadOnData(h, f)

\* The receive loop run to its end on the bytes w
RECURSIVE ReadLoop(_, _, _)
ReadLoop(h, f, w) ==
    IF h.pc # "read_loop" THEN [host |-> h, file |-> f]
    ELSE LET r == ReadFrame(w)
             d == ReadDispatch([h EXCEPT !.frame = r.frame], f)
         IN  ReadLoop(d.host, d.file, r.rest)

\* lines 536-540: the first page_size bytes of every page_total bytes
StripOob(data, page_size, page_total) ==
    [j \in 1..((Len(data) \div page_total) * page_size) |->
        data[((j - 1) \div page_size) * page_total + ((j - 1) % page_size) + 1]]

\* lines 529-543: the value read_nand returns
ReadResult(nand_data, page_size, include_oob) ==
    IF ~include_oob /\ nand_data # <<>> /\ Len(nand_data) % PageTotal(page_size) = 0
    THEN StripOob(nand_data, page_size, PageTotal(page_size))
    ELSE nand_data

(***************************************************************************)
(* Host WRITE (write_nand)                                                 *)
(***************************************************************************)
None == [tag |-> "None", val |-> 0]

\* read_response, framed branch: the string tag a frame is mapped to
ReadResponse(frame) ==
    IF frame = NoFrame THEN None
    ELSE IF frame[1] = CMD_PROGRESS
         THEN [tag |-> "PROGRESS", val |-> FromBytes(Take(frame[2], Min(2, Len(frame[2]))))]
    ELSE IF frame[1] = CMD_READY_FOR_DATA THEN [tag |-> "READY_FOR_DATA", val |-> 0]
    ELSE IF frame[1] = CMD_COMPLETE THEN [tag |-> "OPERATION_COMPLETE", val |-> 0]
    ELSE IF frame[1] = CMD_ERROR THEN [tag |-> "OPERATION_FAILED", val |-> 0]
    ELSE IF frame[1] = CMD_MODEL THEN [tag |-> "MODEL", val |-> 0]
    ELSE IF frame[1] = CMD_POWER_WARNING THEN [tag |-> "POWER_WARNING", val |-> 0]
    ELSE None

\* write_nand, resume check: where streaming starts, and whether the checkpoint is cleared
StartOffset(resume, data) ==
    LET s == IF GetInt(resume.bytes_sent) > Len(data) THEN 0
             ELSE GetInt(resume.bytes_sent)
    IN  IF resume.operation # "WRITE" THEN [offset |-> 0, clear |-> FALSE]
        ELSE IF resume.chunk_crc32 # NoCrc /\ s >= CHUNK_SIZE
                /\ Crc32(PySlice(data, s - CHUNK_SIZE, s)) # resume.chunk_crc32
        THEN [offset |-> 0, clear |-> TRUE]
        ELSE [offset |-> s, clear |-> FALSE]

(***************************************************************************)
(* Host ERASE (erase_nand, framed branch)                                  *)
(***************************************************************************)
\* A PROGRESS handler that derives the block from the percent in every case
EraseOnProgressApprox(h, f, total_blocks) ==
    LET payload == h.frame[2]
        percent == FromBytes(Take(payload, Min(2, Len(payload))))
        resume  == [h.resume EXCEPT !.operation = "ERASE",
                                    !.erase_block = (percent * total_blocks) \div 100]
    IN  [host |-> [h EXCEPT !.pc = "erase_loop", !.resume = resume,
                            !.last_progress = payload, !.acked_percent = percent,
                            !.checkpointed = TRUE],
         file |-> SaveResumeState(resume)]

\* cmd == CMD_PROGRESS
EraseOnProgress(h, f, total_blocks) ==
    LET payload == h.frame[2]
        percent == FromBytes(Take(payload, Min(2, Len(payload))))
        block   == IF Len(payload) >= 6 THEN FromBytes(SubSeq(payload, 3, 6))
                   ELSE (percent * total_blocks) \div 100
        resume  == [h.resume EXCEPT !.operation = "ERASE", !.erase_block = block]
    IN  [host |-> [h EXCEPT !.pc = "erase_loop", !.resume = resume,
                            !.last_progress = payload, !.acked_percent = percent,
                            !.checkpointed = TRUE],
         file |-> SaveResumeState(resume)]

(***************************************************************************)
(* Runs of the host engine.  A run is one call of read_nand, write_nand or *)
(* erase_nand against the bytes the device will send (wire) and the resume *)
(* file left by an earlier run.                                            *)
(***************************************************************************)
MaxPages == 2
MaxData == 5
MaxBlocks == 3
MaxProgress == 2
ShortLen == 2

\* Chip descriptors: the spare size of the chip is the one the page-size rule
\* gives, or one given by the descriptor that differs from it
Descriptors ==
    { [page_size |-> 2, spare_size |-> SPARE_DEFAULT],
      [page_size |-> PAGE_4K, spare_size |-> SPARE_4K],
      [page_size |-> 2, spare_size |-> 2] }

\* Arrival orders of the three frames of a page
PageOrders == {"CPD", "PDC", "DCP"}

\* The other side of DATA for PAGE_CRC
SwapOrder(o) == IF o = "CPD" THEN "PDC" ELSE "CPD"

\* Page p as the device buffers it: n bytes (page + i) mod 251
PagePayload(p, n) == [i \in 1..n |-> (p + i - 1) % 251]

\* The hash without its final complement
ChunkHashUncomplemented(data) == Xor32(Dev_crc32(data), AllOnes)

\* calculate_chunk_hash(page_buffer) on the device
CalculateChunkHash(data) == Dev_crc32(data)

WrongCrc == <<239, 190, 173, 222>>      \* 0xDEADBEEF

ReadCheckpoint(k, crc) ==
    SaveResumeState([EmptyDict EXCEPT !.operation = "READ", !.last_page = k,
                                      !.page_crc32 = crc])
WriteCheckpoint(s, crc) ==
    SaveResumeState([EmptyDict EXCEPT !.operation = "WRITE", !.bytes_sent = s,
                                      !.chunk_crc32 = crc])
EraseCheckpoint(b) ==
    SaveResumeState([EmptyDict EXCEPT !.operation = "ERASE", !.erase_block = b])

\* The data given to write_nand: n bytes
WriteData(n) == [i \in 1..n |-> (7 * i) % 251]

\* Resume files a READ of n pages of l bytes may find: none, one left by a
\* WRITE, or a READ checkpoint for page k whose CRC is absent, wrong, or the
\* CRC of page k
ReadRunFiles(n, l) ==
    {FileAbsent, WriteCheckpoint(CHUNK_SIZE, WrongCrc)}
    \cup UNION { {ReadCheckpoint(k, crc) :
                    crc \in {NoCrc, WrongCrc, CalculateChunkHash(PagePayload(k, l))}} :
                 k \in 0..n }

\* Resume files a WRITE of n bytes may find: none, one left by a READ, or a
\* WRITE checkpoint at offset s whose CRC is absent, wrong, or the CRC of the
\* chunk that ends at s
WriteRunFiles(n) ==
    {FileAbsent, ReadCheckpoint(1, WrongCrc)}
    \cup UNION { {WriteCheckpoint(s, crc) :
                    crc \in {NoCrc, WrongCrc,
                             Crc32(PySlice(WriteData(n), s - CHUNK_SIZE, s))}} :
                 s \in 0..(n + 1) }

\* Lengths of the DATA payloads of a run: whole records of the chip, or, for
\* the chip the spare rule fits, payloads shorter than a record
PayloadLengths(d) ==
    {d.page_size + d.spare_size}
    \cup (IF d.page_size # PAGE_4K /\ d.spare_size = SpareSize(d.page_size)
         THEN {ShortLen} ELSE {})

ReadRuns ==
    UNION { UNION { UNION {
      { [op |-> "READ", connected |-> TRUE, nand_info |-> d, npages |-> n, plen |-> l,
         order |-> o, fault |-> ft, ckpt |-> c] :
          o  \in [1..n -> PageOrders],
          ft \in {<<"none", 0>>, <<"error", 0>>, <<"silent", 0>>, <<"warning", 0>>}
                    \cup {<<"corrupt", p>> : p \in 0..(n - 1)},
          c  \in ReadRunFiles(n, l) } :
      l \in PayloadLengths(d) } :
      n \in 1..MaxPages } :
      d \in Descriptors }

WriteRuns ==
    UNION {
      { [op |-> "WRITE", connected |-> TRUE, nand_info |-> [page_size |-> 2, spare_size |-> SPARE_DEFAULT],
         data |-> WriteData(n), replies |-> r, ckpt |-> c] :
          r \in {<<"error">>, <<"silent">>}
                   \cup {<<"ready", np, t>> : np \in 0..MaxProgress,
                                              t \in {"complete", "error", "silent"}},
          c \in WriteRunFiles(n) } :
      n \in 0..MaxData }

EraseRuns ==
    UNION {
      { [op |-> "ERASE", connected |-> TRUE, nand_info |-> [page_size |-> 2, spare_size |-> SPARE_DEFAULT],
         blocks |-> n, indexed |-> ix, stray |-> st, last |-> t, ckpt |-> c] :
          ix \in [1..n -> BOOLEAN], st \in BOOLEAN,
          t  \in {"complete", "error", "silent"},
          c  \in {FileAbsent, ReadCheckpoint(1, WrongCrc), EraseCheckpoint(1)} } :
      n \in 1..MaxBlocks }

\* current_nand_info = None
NoDescriptor == [page_size |-> 0, spare_size |-> 0]

\* detect_nand: self.supported_nand.get(model_name) for the model the device
\* reports; no registry entry is called UNKNOWN
DetectNand(model_name, d) == IF model_name = "UNKNOWN" THEN NoDescriptor ELSE d

\* The controller of the run is not connected or holds no descriptor
Unready(sc) == ~sc.connected \/ sc.nand_info = NoDescriptor

\* The guard without its second half
RefusesUnconnected(sc) == ~sc.connected

\* if not self.is_connected or not self.current_nand_info
Refuses(sc) == ~sc.connected \/ sc.nand_info = NoDescriptor

\* Calls made while the controller is not connected (with the descriptor of an
\* earlier session or none) or holds no descriptor (nothing detected, or the
\* device reported MODEL:UNKNOWN)
RefusedRuns ==
    { sc \in { [op |-> o, connected |-> cn, nand_info |-> DetectNand(m, d), ckpt |-> c] :
                 o \in {"READ", "WRITE", "ERASE"}, cn \in BOOLEAN,
                 m \in {"UNKNOWN", "CHIP"},
                 d \in {[page_size |-> 2, spare_size |-> SPARE_DEFAULT]},
                 c \in {FileAbsent, ReadCheckpoint(1, WrongCrc)} } :
        Unready(sc) }

Runs == ReadRuns \cup WriteRuns \cup EraseRuns \cup RefusedRuns

\* int((unit + 1) * 100 / total)
\* A report that counts what is left to do
PercentRemaining(unit, total) == ((total - unit) * 100) \div total

Percent(unit, total) == ((unit + 1) * 100) \div total

\* Bit b of the header-and-payload region (the bytes between MAGIC and the CRC)
FlipBit(byte, k) == IF (byte \div (2^k)) % 2 = 1 THEN byte - 2^k ELSE byte + 2^k
FlipAt(bytes, b) ==
    LET pos == Len(MAGIC) + 1 + (b \div 8)
    IN  [bytes EXCEPT ![pos] = FlipBit(bytes[pos], b % 8)]

\* power_msg of check_power_supply when the voltage is low, cut to its first
\* three bytes: b"Low"
PowerMessage == <<76, 111, 119>>

\* The three frames the device sends for page p (read_nand_operation), in the
\* order of the run; a corrupt DATA frame has one payload bit inverted in
\* transit; a POWER_WARNING frame follows the frames of page p when the supply
\* is low at p
PageFrames(sc, p) ==
    LET payload == PagePayload(p, sc.plen)
        whole   == DevFrame(CMD_READ, payload)
        D == IF sc.fault = <<"corrupt", p>> THEN FlipAt(whole, 40) ELSE whole
        C == DevFrame(CMD_PAGE_CRC, PackIdx(p) \o CalculateChunkHash(payload))
        P == DevFrame(CMD_PROGRESS, PackPercent(Percent(p, sc.npages)) \o PackIdx(p))
        o == sc.order[p + 1]
        W == IF sc.fault = <<"warning", p>>
             THEN DevFrame(CMD_POWER_WARNING, PowerMessage) ELSE <<>>
    IN  (IF o = "CPD" THEN C \o P \o D
         ELSE IF o = "PDC" THEN P \o D \o C
         ELSE D \o C \o P) \o W

LastFrame(kind) ==
    IF kind \in {"none", "corrupt", "warning", "complete"} THEN DevFrame(CMD_COMPLETE, <<>>)
    ELSE IF kind = "error" THEN DevFrame(CMD_ERROR, <<>>)
    ELSE <<>>

ReadStream(sc) ==
    Flatten([p \in 1..sc.npages |-> PageFrames(sc, p - 1)]) \o LastFrame(sc.fault[1])

WriteStream(sc) ==
    IF sc.replies[1] = "error" THEN DevFrame(CMD_ERROR, <<>>)
    ELSE IF sc.replies[1] = "silent" THEN <<>>
    ELSE DevFrame(CMD_READY_FOR_DATA, <<>>)
         \o Flatten([p \in 1..sc.replies[2] |->
                DevFrame(CMD_PROGRESS,
                         PackPercent(Percent(p - 1, sc.replies[2])) \o PackIdx(p - 1))])
         \o LastFrame(sc.replies[3])

EraseStream(sc) ==
    (IF sc.stray THEN DevFrame(CMD_MODEL, <<85>>) ELSE <<>>)
    \o Flatten([b \in 1..sc.blocks |->
          DevFrame(CMD_PROGRESS,
                   IF sc.indexed[b]
                   THEN PackPercent(Percent(b - 1, sc.blocks)) \o PackIdx(b - 1)
                   ELSE PackPercent(Percent(b - 1, sc.blocks)))])
    \o LastFrame(sc.last)

Stream(sc) ==
    IF Unready(sc) THEN <<>>
    ELSE IF sc.op = "READ" THEN ReadStream(sc)
    ELSE IF sc.op = "WRITE" THEN WriteStream(sc)
    ELSE EraseStream(sc)

CodecIdle == [pc |-> "idle", cmd |-> 0, payload |-> <<>>, side |-> "none",
              bytes |-> <<>>, flip |-> -1, result |-> NoFrame]
DevParked == [pc |-> "parked"]

Init ==
    \E sc \in Runs :
        /\ scenario = sc
        /\ wire = Stream(sc)
        /\ resumeFile = sc.ckpt
        /\ host = HostIdle
        /\ toDev = <<>>
        /\ codec = [CodecIdle EXCEPT !.pc = "parked"]
        /\ dev = DevParked

(***************************************************************************)
(* Actions of the host engine                                              *)
(***************************************************************************)
\* read_nand up to the first _read_frame: refuse, or send READ and load the
\* checkpoint
ReadStart ==
    /\ host.pc = "idle" /\ scenario.op = "READ"
    /\ IF Refuses(scenario)
       THEN host' = Failed([host EXCEPT !.op = "READ"]) /\ toDev' = toDev
       ELSE /\ host' = ReadEnter(host, resumeFile, scenario.nand_info.page_size)
            /\ toDev' = Append(toDev, Frame(CMD_READ, <<>>))
    /\ UNCHANGED <<resumeFile, wire, scenario, codec, dev>>

\* frame = self._read_frame(), in any of the receive loops
HostReadFrame ==
    /\ host.pc \in {"read_loop", "write_ready", "write_wait", "erase_loop"}
    /\ LET r == ReadFrame(wire)
       IN  /\ host' = [host EXCEPT !.frame = r.frame,
                          !.pc = IF host.pc = "read_loop" THEN "read_frame"
                                 ELSE IF host.pc = "write_ready" THEN "write_ready_frame"
                                 ELSE IF host.pc = "write_wait" THEN "write_wait_frame"
                                 ELSE "erase_frame"]
           /\ wire' = r.rest
    /\ UNCHANGED <<resumeFile, toDev, scenario, codec, dev>>

\* if not frame: return None
ReadNoFrame ==
    /\ host.pc = "read_frame" /\ host.frame = NoFrame
    /\ host' = Failed(host)
    /\ UNCHANGED <<resumeFile, wire, toDev, scenario, codec, dev>>

\* cmd == CMD_PROGRESS
ReadProgress ==
    /\ host.pc = "read_frame"
    /\ host.frame # NoFrame /\ host.frame[1] = CMD_PROGRESS
    /\ LET d == ReadOnProgress(host, resumeFile)
       IN  host' = d.host /\ resumeFile' = d.file
    /\ UNCHANGED <<wire, toDev, scenario, codec, dev>>

\* cmd == CMD_COMPLETE
ReadComplete ==
    /\ host.pc = "read_frame"
    /\ host.frame # NoFrame /\ host.frame[1] = CMD_COMPLETE
    /\ LET d == ReadOnComplete(host, resumeFile)
       IN  host' = d.host /\ resumeFile' = d.file
    /\ UNCHANGED <<wire, toDev, scenario, codec, dev>>

\* cmd == CMD_ERROR: return None
ReadError ==
    /\ host.pc = "read_frame"
    /\ host.frame # NoFrame /\ host.frame[1] = CMD_ERROR
    /\ host' = Failed(host)
    /\ UNCHANGED <<resumeFile, wire, toDev, scenario, codec, dev>>

\* cmd == CMD_PAGE_CRC
ReadPageCrc ==
    /\ host.pc = "read_frame"
    /\ host.frame # NoFrame /\ host.frame[1] = CMD_PAGE_CRC
    /\ LET d == ReadOnPageCrc(host, resumeFile)
       IN  host' = d.host /\ resumeFile' = d.file
    /\ UNCHANGED <<wire, toDev, scenario, codec, dev>>

\* any other cmd
ReadData ==
    /\ host.pc = "read_frame"
    /\ host.frame # NoFrame
    /\ host.frame[1] \notin {CMD_PROGRESS, CMD_COMPLETE, CMD_ERROR, CMD_PAGE_CRC}
    /\ LET d == ReadOnData(host, resumeFile)
       IN  host' = d.host /\ resumeFile' = d.file
    /\ UNCHANGED <<wire, toDev, scenario, codec, dev>>

\* after the loop: strip the spare bytes unless include_oob, and return
ReadReturn(include_oob) ==
    /\ host.pc = "read_post"
    /\ host' = [host EXCEPT !.pc = "done", !.include_oob = include_oob,
                  !.result = [ok |-> TRUE,
                              data |-> ReadResult(host.nand_data,
                                                  scenario.nand_info.page_size,
                                                  include_oob)]]
    /\ UNCHANGED <<resumeFile, wire, toDev, scenario, codec, dev>>

\* write_nand up to read_response: refuse, or send WRITE
WriteStart ==
    /\ host.pc = "idle" /\ scenario.op = "WRITE"
    /\ IF Refuses(scenario)
       THEN host' = Failed([host EXCEPT !.op = "WRITE"]) /\ toDev' = toDev
       ELSE /\ host' = [host EXCEPT !.pc = "write_ready", !.op = "WRITE"]
            /\ toDev' = Append(toDev, Frame(CMD_WRITE, <<>>))
    /\ UNCHANGED <<resumeFile, wire, scenario, codec, dev>>

\* the reply to WRITE: give up, or validate the checkpoint (lines 566-589)
WriteReady ==
    /\ host.pc = "write_ready_frame"
    /\ IF ReadResponse(host.frame).tag # "READY_FOR_DATA"
       THEN host' = Failed(host) /\ resumeFile' = resumeFile
       ELSE LET resume == LoadResumeState(resumeFile)
                start  == StartOffset(resume, scenario.data)
            IN  /\ host' = [host EXCEPT
                              !.pc = IF start.offset < Len(scenario.data)
                                     THEN "write_send" ELSE "write_wait",
                              !.resume = resume, !.start_offset = start.offset,
                              !.i = start.offset]
                /\ resumeFile' = IF start.clear THEN ClearResumeState ELSE resumeFile
    /\ UNCHANGED <<wire, toDev, scenario, codec, dev>>

\* one pass of "for i in range(start_offset, total_size, chunk_size)"
WriteSendChunk ==
    /\ host.pc = "write_send"
    /\ LET chunk  == PySlice(scenario.data, host.i, host.i + CHUNK_SIZE)
           save   == host.i % CHECKPOINT_BYTES = 0
           resume == IF save
                     THEN [host.resume EXCEPT !.operation = "WRITE",
                                              !.bytes_sent = host.i + Len(chunk),
                                              !.chunk_crc32 = Crc32(chunk)]
                     ELSE host.resume
       IN  /\ toDev' = Append(toDev, Frame(CMD_WRITE, chunk))
           /\ host' = [host EXCEPT
                         !.pc = IF host.i + CHUNK_SIZE < Len(scenario.data)
                                THEN "write_send" ELSE "write_wait",
                         !.i = @ + CHUNK_SIZE, !.sent = @ \o chunk,
                         !.resume = resume,
                         !.checkpointed = IF save THEN TRUE ELSE @]
           /\ resumeFile' = IF save THEN SaveResumeState(resume) ELSE resumeFile
    /\ UNCHANGED <<wire, scenario, codec, dev>>

\* one pass of the loop that waits for completion (lines 618-640)
WriteResponse ==
    /\ host.pc = "write_wait_frame"
    /\ LET response == ReadResponse(host.frame)
       IN  host' =
             IF response = None THEN Failed(host)
             ELSE IF response.tag = "PROGRESS"
                  THEN [host EXCEPT !.pc = "write_wait", !.acked_percent = response.val]
             ELSE IF response.tag = "OPERATION_COMPLETE"
                  THEN [host EXCEPT !.pc = "done", !.result = [ok |-> TRUE, data |-> <<>>]]
             ELSE IF response.tag = "OPERATION_FAILED" THEN Failed(host)
             ELSE [host EXCEPT !.pc = "write_wait"]
    /\ UNCHANGED <<resumeFile, wire, toDev, scenario, codec, dev>>

\* erase_nand up to the first _read_frame: refuse, or send ERASE and load
EraseStart ==
    /\ host.pc = "idle" /\ scenario.op = "ERASE"
    /\ IF Refuses(scenario)
       THEN host' = Failed([host EXCEPT !.op = "ERASE"]) /\ toDev' = toDev
       ELSE /\ host' = [host EXCEPT !.pc = "erase_loop", !.op = "ERASE",
                                    !.resume = LoadResumeState(resumeFile)]
            /\ toDev' = Append(toDev, Frame(CMD_ERASE, <<>>))
    /\ UNCHANGED <<resumeFile, wire, scenario, codec, dev>>

\* if not frame: return False
EraseNoFrame ==
    /\ host.pc = "erase_frame" /\ host.frame = NoFrame
    /\ host' = Failed(host)
    /\ UNCHANGED <<resumeFile, wire, toDev, scenario, codec, dev>>

\* cmd == CMD_PROGRESS
EraseProgress ==
    /\ host.pc = "erase_frame"
    /\ host.frame # NoFrame /\ host.frame[1] = CMD_PROGRESS
    /\ LET d == EraseOnProgress(host, resumeFile, scenario.blocks)
       IN  host' = d.host /\ resumeFile' = d.file
    /\ UNCHANGED <<wire, toDev, scenario, codec, dev>>

\* cmd == CMD_COMPLETE: return True
EraseComplete ==
    /\ host.pc = "erase_frame"
    /\ host.frame # NoFrame /\ host.frame[1] = CMD_COMPLETE
    /\ host' = [host EXCEPT !.pc = "done", !.result = [ok |-> TRUE, data |-> <<>>]]
    /\ UNCHANGED <<resumeFile, wire, toDev, scenario, codec, dev>>

\* cmd == CMD_ERROR: return False
EraseError ==
    /\ host.pc = "erase_frame"
    /\ host.frame # NoFrame /\ host.frame[1] = CMD_ERROR
    /\ host' = Failed(host)
    /\ UNCHANGED <<resumeFile, wire, toDev, scenario, codec, dev>>

\* any other frame is passed over
EraseOther ==
    /\ host.pc = "erase_frame"
    /\ host.frame # NoFrame
    /\ host.frame[1] \notin {CMD_PROGRESS, CMD_COMPLETE, CMD_ERROR}
    /\ host' = [host EXCEPT !.pc = "erase_loop"]
    /\ UNCHANGED <<resumeFile, wire, toDev, scenario, codec, dev>>

Next ==
    \/ ReadStart \/ HostReadFrame
    \/ ReadNoFrame \/ ReadProgress \/ ReadComplete \/ ReadError
    \/ ReadPageCrc \/ ReadData
    \/ \E include_oob \in BOOLEAN : ReadReturn(include_oob)
    \/ WriteStart \/ WriteReady \/ WriteSendChunk \/ WriteResponse
    \/ EraseStart \/ EraseNoFrame \/ EraseProgress \/ EraseComplete
    \/ EraseError \/ EraseOther

Spec == Init /\ [][Next]_vars

\* The caller runs the operation a second time after it returned success: the
\* device streams the same chip again, the resume file is what the first run
\* left
RunAgain ==
    /\ host.pc = "done" /\ host.result # NoResult
    /\ host.run = 1
    /\ host' = [HostIdle EXCEPT !.run = 2, !.first_data = host.nand_data]
    /\ wire' = Stream(scenario)
    /\ toDev' = <<>>
    /\ UNCHANGED <<resumeFile, scenario, codec, dev>>

AgainNext == Next \/ RunAgain

SpecAgain == Init /\ [][AgainNext]_vars

(***************************************************************************)
(* Frame codec in isolation: a frame is built by the host or by the        *)
(* device, one bit of its header or payload may be inverted in transit,    *)
(* and the host's reader is applied to the bytes.                          *)
(***************************************************************************)
MaxPayload == 2
ByteSample == {0, 80, 255}

SeqsUpTo(S, n) == UNION {[1..k -> S] : k \in 0..n}

\* A four-byte payload that equals the CRC of the same header with length 0
CrcShapedPayload(cmd) == Crc32(<<cmd>> \o PackLen(0))

CodecPayloads(cmd) == SeqsUpTo(ByteSample, MaxPayload) \cup {CrcShapedPayload(cmd)}

HostParked == [HostIdle EXCEPT !.pc = "parked"]
NoScenario == [op |-> "none", connected |-> FALSE, ckpt |-> FileAbsent]

CodecInit ==
    /\ codec = CodecIdle
    /\ resumeFile = FileAbsent
    /\ host = HostParked
    /\ wire = <<>>
    /\ toDev = <<>>
    /\ scenario = NoScenario
    /\ dev = DevParked

\* _frame(cmd, payload) on the host
HostBuildFrame(cmd, payload) ==
    /\ codec.pc = "idle"
    /\ codec' = [codec EXCEPT !.pc = "built", !.cmd = cmd, !.payload = payload,
                              !.side = "host", !.bytes = Frame(cmd, payload)]
    /\ UNCHANGED <<resumeFile, host, wire, toDev, scenario, dev>>

\* _send_frame(cmd, payload) on the device
DevBuildFrame(cmd, payload) ==
    /\ codec.pc = "idle"
    /\ codec' = [codec EXCEPT !.pc = "built", !.cmd = cmd, !.payload = payload,
                              !.side = "device", !.bytes = DevFrame(cmd, payload)]
    /\ UNCHANGED <<resumeFile, host, wire, toDev, scenario, dev>>

\* The link inverts one bit of the header or payload
LinkFlipsBit(b) ==
    /\ codec.pc = "built"
    /\ codec' = [codec EXCEPT !.pc = "damaged", !.flip = b,
                              !.bytes = FlipAt(codec.bytes, b)]
    /\ UNCHANGED <<resumeFile, host, wire, toDev, scenario, dev>>

\* _read_frame() on the host
HostReadsFrame ==
    /\ codec.pc \in {"built", "damaged"}
    /\ codec' = [codec EXCEPT !.pc = "read", !.result = ReadFrame(codec.bytes).frame]
    /\ UNCHANGED <<resumeFile, host, wire, toDev, scenario, dev>>

CodecNext ==
    \/ \E cmd \in CommandCodes : \E payload \in CodecPayloads(cmd) :
          HostBuildFrame(cmd, payload)
    \/ \E cmd \in CommandCodes : \E payload \in CodecPayloads(cmd) :
          DevBuildFrame(cmd, payload)
    \/ \E b \in 0..(8 * (5 + Len(codec.payload)) - 1) : LinkFlipsBit(b)
    \/ HostReadsFrame

SpecFrame == CodecInit /\ [][CodecNext]_vars

(***************************************************************************)
(* Properties of the host engine (specification Spec)                      *)
(***************************************************************************)
\* The payloads of all DATA frames of a READ run, in arrival order
AllData(sc) == Flatten([p \in 1..sc.npages |-> PagePayload(p - 1, sc.plen)])

ReadRun == scenario.op = "READ" /\ ~Unready(scenario)
ReadDone == ReadRun /\ host.pc = "done"
CleanStream == scenario.fault[1] = "none"

\* The run started with a READ checkpoint {last_page = k, page_crc32 = c} and
\* the stream holds the PAGE_CRC frame of page k
ReadResumed ==
    /\ ReadRun
    /\ scenario.ckpt.exists /\ scenario.ckpt.state.operation = "READ"
    /\ scenario.ckpt.state.page_crc32 # NoCrc
    /\ scenario.ckpt.state.last_page < scenario.npages
CrcOfCheckpointPage ==
    CalculateChunkHash(PagePayload(scenario.ckpt.state.last_page, scenario.plen))
ResumeMatches == ReadResumed /\ scenario.ckpt.state.page_crc32 = CrcOfCheckpointPage
ResumeMismatches == ReadResumed /\ scenario.ckpt.state.page_crc32 # CrcOfCheckpointPage

\* C21: while the controller is not connected or holds no chip descriptor,
\* read_nand, write_nand and erase_nand send nothing to the device, leave the
\* resume file as it was and return failure.
C21_RefusedWithoutDescriptor ==
    Unready(scenario) =>
        /\ toDev = <<>>
        /\ resumeFile = scenario.ckpt
        /\ host.pc \in {"idle", "done"}
        /\ host.pc = "done" => ~host.result.ok

\* A connected controller without descriptor has refused, a resume file on disk
C21_Witness ==
    /\ scenario.connected /\ scenario.nand_info = NoDescriptor
    /\ scenario.ckpt.exists
    /\ host.pc = "done" /\ host.op = "ERASE"

\* C1: a READ resumed from a checkpoint whose CRC differs from the PAGE_CRC of
\* page last_page returns the payload of every DATA frame of the stream.
C1_MismatchReturnsWholeStream ==
    (ReadDone /\ CleanStream /\ ResumeMismatches) =>
        /\ host.result.ok
        /\ host.nand_data = AllData(scenario)

WriteRun == scenario.op = "WRITE" /\ ~Unready(scenario)

\* The run started with a WRITE checkpoint {bytes_sent = s, chunk_crc32 = c}
WriteResumed ==
    /\ WriteRun
    /\ scenario.ckpt.exists /\ scenario.ckpt.state.operation = "WRITE"
    /\ scenario.ckpt.state.chunk_crc32 # NoCrc
ChunkBeforeCheckpoint ==
    PySlice(scenario.data, scenario.ckpt.state.bytes_sent - CHUNK_SIZE,
            scenario.ckpt.state.bytes_sent)

\* C3: a WRITE resumed from a checkpoint {bytes_sent = s, chunk_crc32 = c}
\* starts at offset 0 with the resume file removed, and sends all of data, when
\* CRC32(data[s - chunk_size .. s]) differs from c, and starts at offset s when
\* it equals c.
C3_WriteCheckpointValidated ==
    (WriteResumed /\ host.pc \in {"write_send", "write_wait"}) =>
        IF Crc32(ChunkBeforeCheckpoint) # scenario.ckpt.state.chunk_crc32
        THEN /\ host.start_offset = 0
             /\ host.sent = <<>> => ~resumeFile.exists
             /\ host.pc = "write_wait" => host.sent = scenario.data
        ELSE host.start_offset = scenario.ckpt.state.bytes_sent

EraseRun == scenario.op = "ERASE" /\ ~Unready(scenario)

\* C4: during an ERASE, once a PROGRESS frame carrying a block index has been
\* handled the resume file holds {operation = ERASE, erase_block = that index},
\* until the next PROGRESS frame; so it does when erase_nand returns.
C4_EraseCheckpointIsLastBlock ==
    (EraseRun /\ Len(host.last_progress) >= 6) =>
        /\ resumeFile.exists
        /\ resumeFile.state.operation = "ERASE"
        /\ resumeFile.state.erase_block = FromBytes(SubSeq(host.last_progress, 3, 6))

C4_Witness ==
    /\ EraseRun /\ host.pc = "done" /\ host.result.ok
    /\ scenario.blocks = 2 /\ scenario.indexed = <<FALSE, TRUE>>
    /\ resumeFile.state.erase_block = 1

\* The run with PAGE_CRC moved to the other side of DATA on every page
SwappedRun(sc) == [sc EXCEPT !.order = [p \in 1..sc.npages |-> SwapOrder(sc.order[p])]]

\* What read_nand returns for the run sc
ReadOutcome(sc, include_oob) ==
    LET h0  == ReadEnter(HostIdle, sc.ckpt, sc.nand_info.page_size)
        end == ReadLoop(h0, sc.ckpt, ReadStream(sc)).host
    IN  IF end.pc = "read_post"
        THEN [ok |-> TRUE,
              data |-> ReadResult(end.nand_data, sc.nand_info.page_size, include_oob)]
        ELSE NoResult

\* C5: a READ returns the same buffer whichever side of its DATA frame each
\* PAGE_CRC frame arrives on, with or without a checkpoint; without a READ
\* checkpoint the buffer is the concatenation of all DATA payloads.
C5_OrderIndependent ==
    (ReadDone /\ CleanStream) =>
        /\ host.result = ReadOutcome(SwappedRun(scenario), host.include_oob)
        /\ (~scenario.ckpt.exists \/ scenario.ckpt.state.operation # "READ")
              => host.nand_data = AllData(scenario)

\* C6: with include_oob = false a buffer that is a whole number of
\* (page_size + spare_size) records is returned as the first page_size bytes of
\* every record; any other buffer, and any buffer with include_oob = true, is
\* returned unchanged.
C6_OobStripped ==
    (ReadDone /\ host.result.ok) =>
        LET page_size == scenario.nand_info.page_size
            record    == page_size + scenario.nand_info.spare_size
        IN  IF ~host.include_oob /\ Len(host.nand_data) % record = 0
            THEN host.result.data = StripOob(host.nand_data, page_size, record)
            ELSE host.result.data = host.nand_data

\* C8: a READ whose stream holds one DATA frame with a wrong CRC continues to
\* COMPLETE and returns the payloads of all the other DATA frames.
C8_CorruptFrameSkipped ==
    (ReadDone /\ scenario.fault[1] = "corrupt" /\ ~scenario.ckpt.exists) =>
        /\ host.result.ok
        /\ host.nand_data =
              Flatten([p \in 1..scenario.npages |->
                         IF p - 1 = scenario.fault[2] THEN <<>>
                         ELSE PagePayload(p - 1, scenario.plen)])

\* C33: a checkpoint left by an operation that ended with COMPLETE never makes
\* a later operation skip data: the second read_nand of the same chip returns
\* the stream the first one returned, the second write_nand of the same input
\* sends it from offset 0.
C33_CompletedRunLeavesNoSkip ==
    (host.run = 2 /\ host.pc = "done" /\ host.result # NoResult
       /\ scenario.ckpt = FileAbsent) =>
        /\ (scenario.op = "READ" /\ CleanStream) => host.nand_data = host.first_data
        /\ scenario.op = "WRITE" => (host.start_offset = 0 /\ host.sent = scenario.data)

\* C34: whenever the host has persisted a READ checkpoint that holds both
\* last_page and page_crc32, page_crc32 is the CRC32 of the page whose index is
\* last_page.
C34_CheckpointCrcIsOfLastPage ==
    (ReadRun /\ CleanStream /\ scenario.ckpt = FileAbsent /\ host.run = 1
       /\ host.checkpointed /\ resumeFile.exists
       /\ resumeFile.state.operation = "READ"
       /\ resumeFile.state.last_page # Absent
       /\ resumeFile.state.page_crc32 # NoCrc) =>
        /\ resumeFile.state.last_page < scenario.npages
        /\ resumeFile.state.page_crc32 =
               CalculateChunkHash(PagePayload(resumeFile.state.last_page, scenario.plen))

\* C25: the buffer of a READ holds bytes of DATA payloads only: it is a tail
\* of the concatenation, in arrival order, of some of the DATA payloads of the
\* stream.
C25_OnlyDataBytes ==
    ReadRun =>
        \E kept \in SUBSET (1..scenario.npages) :
            LET data == Flatten([p \in 1..scenario.npages |->
                                   IF p \in kept THEN PagePayload(p - 1, scenario.plen)
                                   ELSE <<>>])
            IN  /\ Len(host.nand_data) <= Len(data)
                /\ host.nand_data = Drop(data, Len(data) - Len(host.nand_data))

\* C10: a checkpoint saved by the running operation describes a unit the
\* device has acknowledged: in a WRITE bytes_sent is within the bytes the
\* PROGRESS reports read so far account for, in a READ page last_page has been
\* received, in an ERASE erase_block is the block of a PROGRESS frame read.
C10_CheckpointAfterAcknowledgement ==
    (host.checkpointed /\ host.pc # "done") =>
        /\ host.op = "WRITE" =>
              resumeFile.state.bytes_sent * 100 <= host.acked_percent * Len(scenario.data)
        /\ host.op = "READ" => resumeFile.state.last_page < host.page_counter
        /\ host.op = "ERASE" =>
              /\ Len(host.last_progress) >= 6
              /\ resumeFile.state.erase_block = FromBytes(SubSeq(host.last_progress, 3, 6))

\* C11: in a READ started with a loaded READ checkpoint, DATA bytes are
\* dropped only after the checkpoint's page_crc32 has been compared with the
\* PAGE_CRC the device sends for page last_page.
C11_DiscardAfterComparison ==
    (ReadResumed /\ host.op = "READ" /\ host.discarded > 0) => host.compared

\* C7 (as stated): an undamaged frame reads back as (cmd, payload), and a frame
\* with any single bit of its header or payload inverted is rejected.
C7_AsStated ==
    codec.pc = "read" =>
        IF codec.flip = -1 THEN codec.result = <<codec.cmd, codec.payload>>
        ELSE codec.result = NoFrame

C7_Witness ==
    /\ codec.pc = "read"
    /\ codec.side = "device"
    /\ codec.flip >= 40
    /\ codec.result = NoFrame

(***************************************************************************)
(* Device in a framed session (main_performance.py, binary_mode = True).   *)
(* What the device writes to the UART is kept as a log of emissions in     *)
(* wire: a frame (_send_frame; a textual payload is kept in text) or a     *)
(* text line (uart.write of a string).  toDev holds the frames the host    *)
(* has sent and the device has not read yet.                               *)
(***************************************************************************)
MaxInbound == 3
DEV_PAGE_SIZE == 2
POWER_CHECK_PAGES == 100
POWER_CHECK_BLOCKS == 10

DevGeometries ==
    { [blocks |-> 2, block_size |-> 1, page_size |-> DEV_PAGE_SIZE],
      [blocks |-> 1, block_size |-> 2, page_size |-> DEV_PAGE_SIZE],
      [blocks |-> 3, block_size |-> 1, page_size |-> DEV_PAGE_SIZE] }

\* Payloads of the WRITE frames the host may send: plain data of several
\* lengths, an RLE run, the blank-page marker
WritePayloads == { <<7>>, <<7, 8, 9>>, <<7, 8, 9, 10>>, <<0, 2, 9>>, <<0, 0, 255>> }

\* spare_size of read_nand_operation / write_nand_operation
DevSpareSize(page_size) == IF page_size = PAGE_4K THEN SPARE_4K ELSE SPARE_DEFAULT

FrameOut(cmd, payload, text) ==
    [kind |-> "frame", cmd |-> cmd, payload |-> payload, text |-> text]
TextOut(text) == [kind |-> "text", cmd |-> 0, payload |-> <<>>, text |-> text]
\* uart.write(f"PROGRESS:{progress}\n")
ProgressLine(percent) ==
    [kind |-> "text", cmd |-> 0, payload |-> PackPercent(percent), text |-> "PROGRESS"]

\* decompress_data: 0x00, count, value stands for count times value
RECURSIVE DecompressData(_)
DecompressData(d) ==
    IF d = <<>> THEN <<>>
    ELSE IF d[1] = 0 /\ Len(d) > 2
         THEN [i \in 1..d[2] |-> d[3]] \o DecompressData(Drop(d, 3))
         ELSE <<d[1]>> \o DecompressData(Tail(d))

\* write_nand_operation with use_compression: the blank-page marker fills the
\* page with 0xFF in place, anything else goes through decompress_data
Decompressed(buf, page_total) ==
    IF buf[1] = 0 /\ buf[2] = 0 /\ buf[3] = 255
    THEN [i \in 1..Len(buf) |-> IF i <= page_total THEN 255 ELSE buf[i]]
    ELSE DecompressData(buf)

DevIdle ==
    [pc |-> "idle", nand |-> FALSE, last_block_position |-> 0,
     hash_chunks |-> [READ |-> {}, WRITE |-> {}, ERASE |-> {}],
     page |-> 0, bytes_received |-> 0, page_buffer |-> <<>>, flash |-> <<>>,
     inbound_left |-> MaxInbound,
     stream |-> <<>>, start_page |-> 0, units_after_control |-> 0, timed_out |-> FALSE,
     last_op |-> "none", outcome |-> "none", terminal |-> TextOut("")]

DevInit ==
    /\ \E chip \in BOOLEAN : \E g \in DevGeometries :
          /\ scenario = [op |-> "session", connected |-> TRUE, ckpt |-> FileAbsent,
                         chip |-> chip, info |-> g]
          /\ dev = [DevIdle EXCEPT !.flash =
                      [p \in 1..(g.blocks * g.block_size) |->
                          PagePayload(p - 1, g.page_size + DevSpareSize(g.page_size))]]
    /\ wire = <<>>
    /\ toDev = <<>>
    /\ resumeFile = FileAbsent
    /\ host = HostParked
    /\ codec = [CodecIdle EXCEPT !.pc = "parked"]

TotalPages == scenario.info.blocks * scenario.info.block_size
DevPageTotal == scenario.info.page_size + DevSpareSize(scenario.info.page_size)

\* save_resume_state(operation, block_pos, hash_val)
SaveDevResume(d, operation, block_pos) ==
    [d EXCEPT !.last_block_position = block_pos,
              !.hash_chunks[operation] = @ \cup {block_pos}]

\* lines 636-641 and 721-726: the page a READ or WRITE starts at
StartPage(d, operation) ==
    IF d.last_block_position > 0 /\ d.last_block_position \in d.hash_chunks[operation]
    THEN d.last_block_position * scenario.info.block_size
    ELSE 0

\* The operation is over: back to the frame loop of main_loop
Finished(d, op, outcome, out) ==
    [d EXCEPT !.pc = "idle", !.last_op = op, !.outcome = outcome,
              !.terminal = out[Len(out)]]

\* _read_frame_blocking / _read_frame_after_magic: seek MAGIC (CMD_ERROR when
\* nothing arrives), read CMD + LEN, the payload and the four CRC bytes; the
\* CRC bytes are read and not looked at.  A header that times out gives the
\* command None (Absent), a payload that times out the payload None (has_payload
\* FALSE).
DevReadFrame(buf) ==
    IF MagicEnds(buf) = {}
    THEN [cmd |-> CMD_ERROR, payload |-> <<>>, has_payload |-> TRUE]
    ELSE
      LET m       == CHOOSE i \in MagicEnds(buf) : \A j \in MagicEnds(buf) : i <= j
          header  == ReadExact(Drop(buf, m), 5)
          length  == FromBytes(Drop(header.data, 1))
          body    == ReadExact(header.rest, length)
      IN  IF ~header.ok THEN [cmd |-> Absent, payload |-> <<>>, has_payload |-> TRUE]
          ELSE [cmd |-> header.data[1],
                payload |-> IF length = 0 THEN <<>> ELSE body.data,
                has_payload |-> length = 0 \/ body.ok]

\* Bits of the header-and-payload region the link may flip: two of the
\* command byte, one of the first payload byte
DamageBits == {0, 1, 40}

\* The host writes one frame to the port
HostSendsFrame(cmd, payload) ==
    /\ dev.inbound_left > 0
    /\ toDev = <<>>
    /\ toDev' = <<Frame(cmd, payload)>>
    /\ dev' = [dev EXCEPT !.inbound_left = @ - 1]
    /\ UNCHANGED <<resumeFile, host, wire, scenario, codec>>

\* b"CANCEL\n" and b"PAUSE\n", what the GUI writes to the port to stop or hold
\* the running operation
CANCEL_LINE == <<67, 65, 78, 67, 69, 76, 10>>
PAUSE_LINE == <<80, 65, 85, 83, 69, 10>>
ControlLines == {CANCEL_LINE, PAUSE_LINE}

\* The host writes a control line to the port while a READ or ERASE runs
HostSendsControl(line) ==
    /\ dev.pc \in {"read", "erase"}
    /\ dev.inbound_left > 0
    /\ toDev = <<>>
    /\ toDev' = <<line>>
    /\ dev' = [dev EXCEPT !.inbound_left = @ - 1]
    /\ UNCHANGED <<resumeFile, host, wire, scenario, codec>>

\* A unit starts: one more unit since the control line in the port arrived
UnitStarts(d) ==
    IF toDev # <<>> /\ Head(toDev) \in ControlLines
    THEN [d EXCEPT !.units_after_control = @ + 1] ELSE d

\* The link flips bit b of the frame on its way to the device
DevLinkFlipsBit(b) ==
    /\ dev.pc \in {"idle", "read", "write", "erase"}
    /\ toDev # <<>>
    /\ ReadFrame(Head(toDev)).frame # NoFrame
    /\ Len(MAGIC) + 1 + (b \div 8) <= Len(Head(toDev)) - 4
    /\ toDev' = <<FlipAt(Head(toDev), b)>>
    /\ UNCHANGED <<resumeFile, host, wire, scenario, codec, dev>>

\* _read_frame_blocking times out: main_loop goes round with (CMD_ERROR, b''),
\* which detects again and reports the model while no chip is known
DevPollTimeout ==
    /\ dev.pc = "idle" /\ toDev = <<>>
    /\ dev.inbound_left > 0
    /\ LET nand == dev.nand \/ scenario.chip
           name == IF nand THEN "CHIP" ELSE "UNKNOWN"
       IN  /\ wire' = IF dev.nand THEN wire
                      ELSE wire \o <<FrameOut(CMD_MODEL, <<>>, name)>>
           /\ dev' = [dev EXCEPT !.nand = nand, !.inbound_left = @ - 1]
    /\ UNCHANGED <<resumeFile, host, toDev, scenario, codec>>

\* main_loop, framed branch: detect the chip if none is known, then dispatch
\* the frame read; the operations start here
DevCommand ==
    /\ dev.pc = "idle" /\ toDev # <<>>
    /\ LET cmd  == DevReadFrame(Head(toDev)).cmd
           nand == dev.nand \/ scenario.chip
           name == IF nand THEN "CHIP" ELSE "UNKNOWN"
           det  == IF dev.nand THEN <<>> ELSE <<FrameOut(CMD_MODEL, <<>>, name)>>
           d    == [dev EXCEPT !.nand = nand, !.units_after_control = 0,
                      !.timed_out = FALSE]
       IN  IF cmd = CMD_STATUS
           THEN /\ wire' = wire \o det \o <<FrameOut(CMD_MODEL, <<>>, name)>>
                /\ dev' = d
           ELSE IF cmd = CMD_READ
           THEN IF ~nand
                THEN LET out == wire \o det
                                \o <<FrameOut(CMD_ERROR, <<>>, "NAND_NOT_CONNECTED")>>
                     IN  wire' = out /\ dev' = Finished(d, "READ", "failed", out)
                ELSE /\ wire' = wire \o det
                     /\ dev' = [d EXCEPT !.pc = "read", !.page = StartPage(d, "READ")]
           ELSE IF cmd = CMD_WRITE
           THEN IF ~nand
                THEN LET out == wire \o det \o <<TextOut("NAND_NOT_CONNECTED")>>
                     IN  wire' = out /\ dev' = Finished(d, "WRITE", "failed", out)
                ELSE /\ wire' = wire \o det \o <<FrameOut(CMD_READY_FOR_DATA, <<>>, "")>>
                     /\ dev' = [d EXCEPT !.pc = "write", !.page = StartPage(d, "WRITE"),
                                         !.start_page = StartPage(d, "WRITE"),
                                         !.stream = <<>>,
                                         !.bytes_received = 0,
                                         !.page_buffer = [i \in 1..DevPageTotal |-> 0]]
           ELSE IF cmd = CMD_ERASE
           THEN IF ~nand
                THEN LET out == wire \o det \o <<TextOut("NAND_NOT_CONNECTED")>>
                     IN  wire' = out /\ dev' = Finished(d, "ERASE", "failed", out)
                ELSE /\ wire' = wire \o det
                     /\ dev' = [d EXCEPT !.pc = "erase", !.page = d.last_block_position]
           ELSE wire' = wire \o det /\ dev' = d
    /\ toDev' = Tail(toDev)
    /\ UNCHANGED <<resumeFile, host, scenario, codec>>

\* read_nand_operation: one pass of the page loop
DevReadPage(page_ok, power_ok) ==
    /\ dev.pc = "read" /\ dev.page < TotalPages
    /\ LET page   == dev.page
           buffer == dev.flash[page + 1]
           warn   == IF page % POWER_CHECK_PAGES = 0 /\ ~power_ok
                     THEN <<FrameOut(CMD_POWER_WARNING, <<>>, "Low voltage")>>
                     ELSE <<>>
           out    == wire
                     \o <<FrameOut(CMD_READ, buffer, ""),
                          FrameOut(CMD_PAGE_CRC,
                                   PackIdx(page) \o CalculateChunkHash(buffer), ""),
                          FrameOut(CMD_PROGRESS,
                                   PackPercent(Percent(page, TotalPages)) \o PackIdx(page),
                                   "")>>
                     \o warn
           failed == wire \o <<FrameOut(CMD_ERROR, <<>>, "READ_PAGE_FAIL")>>
       IN  IF ~page_ok
           THEN wire' = failed /\ dev' = Finished(UnitStarts(dev), "READ", "failed", failed)
           ELSE /\ wire' = out
                /\ dev' = [SaveDevResume(UnitStarts(dev), "READ",
                                         page \div scenario.info.block_size)
                             EXCEPT !.page = page + 1]
    /\ UNCHANGED <<resumeFile, host, toDev, scenario, codec>>

\* read_nand_operation: after the last page
DevReadEnd ==
    /\ dev.pc = "read" /\ dev.page >= TotalPages
    /\ LET out == wire \o <<FrameOut(CMD_COMPLETE, <<>>, "")>>
       IN  wire' = out /\ dev' = Finished(dev, "READ", "ok", out)
    /\ UNCHANGED <<resumeFile, host, toDev, scenario, codec>>

\* write_nand_operation: one pass of "while bytes_received < page_total_size";
\* a frame that is not a WRITE frame is passed over, a byte stored beyond the
\* end of the buffer raises and ends the operation
DevWriteReceive ==
    /\ dev.pc = "write" /\ dev.page < TotalPages
    /\ dev.bytes_received < DevPageTotal
    /\ toDev # <<>>
    /\ LET frame   == DevReadFrame(Head(toDev))
           cmd     == frame.cmd
           payload == frame.payload
           last    == Min(dev.bytes_received + Len(payload), DevPageTotal)
           raises  == ~frame.has_payload \/ last > Len(dev.page_buffer)
           buffer  == [i \in 1..Len(dev.page_buffer) |->
                          IF i > dev.bytes_received /\ i <= last
                          THEN payload[i - dev.bytes_received]
                          ELSE dev.page_buffer[i]]
           failed  == wire \o <<TextOut("OPERATION_FAILED")>>
       IN  IF cmd # CMD_WRITE THEN wire' = wire /\ dev' = dev
           ELSE IF raises
           THEN wire' = failed /\ dev' = Finished(dev, "WRITE", "failed", failed)
           ELSE /\ wire' = wire
                /\ dev' = [dev EXCEPT !.page_buffer = buffer,
                                      !.bytes_received = @ + Len(payload),
                                      !.stream = @ \o payload]
    /\ toDev' = Tail(toDev)
    /\ UNCHANGED <<resumeFile, host, scenario, codec>>

\* write_nand_operation with nothing in the port: _read_frame_blocking gives up
\* after the time-out of _read_exact and returns CMD_ERROR, which is not
\* CMD_WRITE, and the receive loop goes round again
DevWriteTimeout ==
    /\ dev.pc = "write" /\ dev.page < TotalPages
    /\ dev.bytes_received < DevPageTotal
    /\ toDev = <<>>
    /\ dev' = [dev EXCEPT !.timed_out = TRUE]
    /\ UNCHANGED <<resumeFile, host, wire, toDev, scenario, codec>>

\* write_nand_operation: the page is complete; decompress, program, report.
\* write_page reads page_total bytes of the buffer and fails on a shorter one
DevWritePage(page_ok, power_ok) ==
    /\ dev.pc = "write" /\ dev.page < TotalPages
    /\ dev.bytes_received >= DevPageTotal
    /\ LET page   == dev.page
           buffer == Decompressed(dev.page_buffer, DevPageTotal)
           warn   == IF page % POWER_CHECK_PAGES = 0 /\ ~power_ok
                     THEN <<TextOut("POWER_WARNING")>> ELSE <<>>
           out    == wire \o <<ProgressLine(Percent(page, TotalPages))>> \o warn
           failed == wire \o <<TextOut("OPERATION_FAILED")>>
       IN  IF ~page_ok \/ Len(buffer) < DevPageTotal
           THEN wire' = failed /\ dev' = Finished(dev, "WRITE", "failed", failed)
           ELSE /\ wire' = out
                /\ dev' = [SaveDevResume(dev, "WRITE", page \div scenario.info.block_size)
                             EXCEPT !.page = page + 1, !.bytes_received = 0,
                                    !.page_buffer = buffer,
                                    !.flash[page + 1] = Take(buffer, DevPageTotal)]
    /\ UNCHANGED <<resumeFile, host, toDev, scenario, codec>>

\* write_nand_operation: after the last page
DevWriteEnd ==
    /\ dev.pc = "write" /\ dev.page >= TotalPages
    /\ LET out == wire \o <<TextOut("OPERATION_COMPLETE")>>
       IN  wire' = out /\ dev' = Finished(dev, "WRITE", "ok", out)
    /\ UNCHANGED <<resumeFile, host, toDev, scenario, codec>>

\* erase_nand_operation: one pass of the block loop (page holds the block)
DevEraseBlock(block_ok, power_ok) ==
    /\ dev.pc = "erase" /\ dev.page < scenario.info.blocks
    /\ LET block  == dev.page
           warn   == IF block % POWER_CHECK_BLOCKS = 0 /\ ~power_ok
                     THEN <<TextOut("POWER_WARNING")>> ELSE <<>>
           out    == wire
                     \o <<FrameOut(CMD_PROGRESS,
                                   PackPercent(Percent(block, scenario.info.blocks))
                                   \o PackIdx(block), "")>>
                     \o warn
           failed == wire \o <<TextOut("OPERATION_FAILED")>>
           erased == [p \in 1..TotalPages |->
                         IF (p - 1) \div scenario.info.block_size = block
                         THEN [i \in 1..DevPageTotal |-> 255]
                         ELSE dev.flash[p]]
       IN  IF ~block_ok
           THEN wire' = failed /\ dev' = Finished(UnitStarts(dev), "ERASE", "failed", failed)
           ELSE /\ wire' = out
                /\ dev' = [SaveDevResume(UnitStarts(dev), "ERASE", block)
                             EXCEPT !.page = block + 1, !.flash = erased]
    /\ UNCHANGED <<resumeFile, host, toDev, scenario, codec>>

\* erase_nand_operation: after the last block
DevEraseEnd ==
    /\ dev.pc = "erase" /\ dev.page >= scenario.info.blocks
    /\ LET out == wire \o <<TextOut("OPERATION_COMPLETE")>>
       IN  wire' = out /\ dev' = Finished(dev, "ERASE", "ok", out)
    /\ UNCHANGED <<resumeFile, host, toDev, scenario, codec>>

DevNext ==
    \/ \E cmd \in {CMD_STATUS, CMD_READ, CMD_WRITE, CMD_ERASE} : HostSendsFrame(cmd, <<>>)
    \/ \E payload \in WritePayloads : HostSendsFrame(CMD_WRITE, payload)
    \/ \E line \in ControlLines : HostSendsControl(line)
    \/ \E b \in DamageBits : DevLinkFlipsBit(b)
    \/ DevPollTimeout
    \/ DevCommand
    \/ \E page_ok \in BOOLEAN, power_ok \in BOOLEAN : DevReadPage(page_ok, power_ok)
    \/ DevReadEnd
    \/ DevWriteReceive
    \/ DevWriteTimeout
    \/ \E page_ok \in BOOLEAN, power_ok \in BOOLEAN : DevWritePage(page_ok, power_ok)
    \/ DevWriteEnd
    \/ \E block_ok \in BOOLEAN, power_ok \in BOOLEAN : DevEraseBlock(block_ok, power_ok)
    \/ DevEraseEnd

SpecDevice == DevInit /\ [][DevNext]_vars

\* What the firmware does by itself: main_loop and the operations run without
\* the host; only the host's writes to the port may never come
DevRuns ==
    \/ DevPollTimeout
    \/ DevCommand
    \/ \E page_ok \in BOOLEAN, power_ok \in BOOLEAN : DevReadPage(page_ok, power_ok)
    \/ DevReadEnd
    \/ DevWriteReceive
    \/ DevWriteTimeout
    \/ \E page_ok \in BOOLEAN, power_ok \in BOOLEAN : DevWritePage(page_ok, power_ok)
    \/ DevWriteEnd
    \/ \E block_ok \in BOOLEAN, power_ok \in BOOLEAN : DevEraseBlock(block_ok, power_ok)
    \/ DevEraseEnd

SpecDeviceLive == SpecDevice /\ WF_vars(DevRuns)

\* A WRITE end to end: write_nand on the host, and write_nand_operation of
\* pico/main.py taking what the host has written to the port, host.sent, page
\* by page.  The chip has MaxWritePages pages.
MaxWritePages == 2

ProgrammerIdle == [pc |-> "programming", page |-> 0, programmed |-> <<>>]

ResumeInit ==
    \E sc \in WriteRuns :
        /\ scenario = sc
        /\ wire = Stream(sc)
        /\ resumeFile = sc.ckpt
        /\ host = HostIdle
        /\ toDev = <<>>
        /\ codec = [CodecIdle EXCEPT !.pc = "parked"]
        /\ dev = ProgrammerIdle

\* One pass of "for page in range(total_pages)": _read_exact returns the next
\* page_total_size bytes of the port, write_page programs them at page
DevProgramsPage ==
    /\ host.op = "WRITE"
    /\ dev.page < MaxWritePages
    /\ LET n == scenario.nand_info.page_size
                + DevSpareSize(scenario.nand_info.page_size)
       IN  /\ Len(host.sent) >= (dev.page + 1) * n
           /\ dev' = [dev EXCEPT
                        !.page = @ + 1,
                        !.programmed = Append(@, SubSeq(host.sent, dev.page * n + 1,
                                                        (dev.page + 1) * n))]
    /\ UNCHANGED <<resumeFile, host, wire, toDev, scenario, codec>>

ResumeNext ==
    \/ WriteStart \/ HostReadFrame \/ WriteReady \/ WriteSendChunk \/ WriteResponse
    \/ DevProgramsPage

SpecResume == ResumeInit /\ [][ResumeNext]_vars

\* C38: in every WRITE, fresh or resumed from a checkpoint with bytes_sent > 0,
\* the device programs page p with bytes p * P up to (p + 1) * P of the host's
\* input, P being the bytes of a page on the wire.
C38_PageIsInputSlice ==
    (scenario.op = "WRITE" /\ dev.pc = "programming") =>
        LET n == scenario.nand_info.page_size
                 + DevSpareSize(scenario.nand_info.page_size)
        IN  \A p \in 1..Len(dev.programmed) :
                dev.programmed[p] = PySlice(scenario.data, (p - 1) * n, p * n)

(***************************************************************************)
(* Properties of the device (specification SpecDevice)                     *)
(***************************************************************************)
\* C37: every operation of the framed firmware terminates, also when the host
\* stops sending WRITE data: the time-out of the inbound read ends the WRITE.
C37_OperationTerminates ==
    (dev.pc \in {"read", "write", "erase"}) ~> (dev.pc = "idle")

\* C31: a PAUSE or CANCEL the host sends during a framed READ or ERASE takes
\* effect before the unit after the next one: no more than one page or block
\* is started while the control line waits in the port.
C31_ControlBetweenUnits ==
    (dev.pc \in {"idle", "read", "write", "erase"}) => dev.units_after_control <= 1

\* C9: the last thing a finished READ, WRITE or ERASE has emitted is a
\* COMPLETE frame when it succeeded and an ERROR frame when it failed.
C9_TerminalFrame ==
    (dev.pc = "idle" /\ dev.last_op \in {"READ", "WRITE", "ERASE"}) =>
        /\ dev.terminal.kind = "frame"
        /\ dev.terminal.cmd = IF dev.outcome = "ok" THEN CMD_COMPLETE ELSE CMD_ERROR

\* C12: the cursor a finished READ, WRITE or ERASE has reached does not carry
\* over: an operation commanded after it starts at page 0 / block 0.
C12_FreshCursor ==
    [][(dev.pc = "idle" /\ dev.last_op # "none"
        /\ dev'.pc \in {"read", "write", "erase"}) => dev'.page = 0]_vars

\* C22: an intact STATUS frame read by the idle device is answered by exactly
\* one MODEL frame.
C22_OneModelPerStatus ==
    [][(dev.pc = "idle" /\ toDev # <<>> /\ toDev' = <<>>
        /\ ReadFrame(Head(toDev)).frame # NoFrame
        /\ DevReadFrame(Head(toDev)).cmd = CMD_STATUS) =>
          /\ Len(wire') = Len(wire) + 1
          /\ wire'[Len(wire')].cmd = CMD_MODEL]_vars

\* C18: the page a framed WRITE programs as its k-th page is, byte for byte,
\* bytes [k * P, (k + 1) * P) of the concatenated payloads of the WRITE frames
\* the device has read in this WRITE, P = page_size + spare_size.
C18_PageIsStreamSlice ==
    [][(dev.pc = "write" /\ dev'.pc = "write" /\ dev'.page = dev.page + 1) =>
          dev'.flash[dev.page + 1] =
              PySlice(dev.stream, (dev.page - dev.start_page) * DevPageTotal,
                      (dev.page - dev.start_page + 1) * DevPageTotal)]_vars

\* C15: a frame whose CRC32 does not match its header and payload is dropped by
\* the device: taking it off the port starts no operation and stores nothing
\* in the page buffer of a WRITE.
C15_BadCrcFrameDropped ==
    [][(toDev # <<>> /\ ReadFrame(Head(toDev)).frame = NoFrame /\ toDev' = <<>>) =>
          /\ dev'.pc = dev.pc
          /\ dev'.page_buffer = dev.page_buffer
          /\ dev'.bytes_received = dev.bytes_received]_vars

(***************************************************************************)
(* Device, text transport (pico/main.py).  toDev is the UART receive       *)
(* buffer, a sequence of bytes; a command line is kept as one letter       *)
(* followed by NL.  wire is the log of what the device has written: text   *)
(* lines, PROGRESS lines with their percent, and raw page data.  The       *)
(* program and erase units are split at the confirm command, so that bytes *)
(* arriving while the chip is busy are seen to wait in the buffer.         *)
(***************************************************************************)
MaxSends == 3
NL == 10
L_STATUS == 83
L_READ == 82
L_WRITE == 87
L_WRITE_NO_OOB == 78
L_ERASE == 69
L_CANCEL == 67
L_PAUSE == 80
L_RESUME == 85

CommandLines == {L_STATUS, L_READ, L_WRITE, L_WRITE_NO_OOB, L_ERASE,
                 L_CANCEL, L_PAUSE, L_RESUME}
\* Page data the host may write to the port in one go
DataChunks == { <<7>>, <<7, 7>>, <<7, 7, 7>> }

DataOut(payload) == [kind |-> "data", cmd |-> 0, payload |-> payload, text |-> ""]
\* uart.readline(): through the first newline, or what has arrived so far
ReadLine(inbox) ==
    LET ends == {i \in 1..Len(inbox) : inbox[i] = NL}
        n    == IF ends = {} THEN Len(inbox)
                ELSE CHOOSE i \in ends : \A j \in ends : i <= j
    IN  [line |-> Take(inbox, n), rest |-> Drop(inbox, n)]

\* data.decode('utf-8').strip()
RECURSIVE Strip(_)
Strip(line) ==
    IF line = <<>> THEN <<>>
    ELSE IF line[1] = NL THEN Strip(Tail(line))
    ELSE IF line[Len(line)] = NL THEN Strip(Take(line, Len(line) - 1))
    ELSE line

IsLine(cmd, letter) == cmd = <<letter>>

LegacyIdle ==
    [pc |-> "lg_idle", op |-> "none", at |-> "top", include_oob |-> TRUE,
     buf |-> <<>>, paused |-> FALSE, cancelled |-> FALSE,
     ce |-> 1, busy |-> FALSE, started |-> 0, returned |-> 0,
     cancel_read |-> FALSE, units_after_cancel |-> 0, expects |-> 0,
     sends_left |-> MaxSends]
    @@ [DevIdle EXCEPT !.nand = TRUE, !.inbound_left = 0]

LegacyInit ==
    /\ \E g \in DevGeometries :
          /\ scenario = [op |-> "text session", connected |-> TRUE, ckpt |-> FileAbsent,
                         chip |-> TRUE, info |-> g]
          /\ dev = [LegacyIdle EXCEPT !.flash =
                      [p \in 1..(g.blocks * g.block_size) |->
                          PagePayload(p - 1, g.page_size + DevSpareSize(g.page_size))]]
    /\ wire = <<>>
    /\ toDev = <<>>
    /\ resumeFile = FileAbsent
    /\ host = HostParked
    /\ codec = [CodecIdle EXCEPT !.pc = "parked"]

LegacyPcs == {"lg_idle", "lg_poll", "lg_paused", "lg_read", "lg_recv", "lg_unit", "lg_busy"}

\* Bytes the device takes out of the receive buffer while an operation runs
Consumes(d, bytes) ==
    [d EXCEPT !.cancel_read = @ \/ \E i \in 1..Len(bytes) : bytes[i] = L_CANCEL]

\* The operation returns to the command loop of main_loop
LegacyFinished(d, outcome, out) ==
    [d EXCEPT !.pc = "lg_idle", !.last_op = d.op, !.outcome = outcome,
              !.terminal = out[Len(out)], !.buf = <<>>]

\* _poll_control has returned False: on with the loop body
Proceed(d) ==
    [d EXCEPT !.pc = IF d.at = "recv" THEN "lg_recv"
                     ELSE IF d.op = "READ" THEN "lg_read"
                     ELSE IF d.op = "WRITE" THEN "lg_poll"
                     ELSE "lg_unit",
              !.at = IF d.at = "top" /\ d.op = "WRITE" THEN "recv" ELSE d.at]

\* _poll_control has returned True: the loop top writes OPERATION_CANCELLED,
\* _read_exact returns None and write_nand_operation writes OPERATION_FAILED
Abort(d, out) ==
    LET line == IF d.at = "top" THEN "OPERATION_CANCELLED" ELSE "OPERATION_FAILED"
        all  == out \o <<TextOut(line)>>
    IN  [dev |-> LegacyFinished([d EXCEPT !.cancelled = TRUE],
                                IF d.at = "top" THEN "cancelled" ELSE "failed", all),
         out |-> all]

\* The host writes a command line to the port
HostSendsLine(letter) ==
    /\ dev.pc \in LegacyPcs /\ dev.sends_left > 0
    /\ toDev' = toDev \o <<letter, NL>>
    /\ dev' = [dev EXCEPT !.sends_left = @ - 1]
    /\ UNCHANGED <<resumeFile, host, wire, scenario, codec>>

\* The host writes page data to the port
HostSendsData(chunk) ==
    /\ dev.pc \in LegacyPcs /\ dev.sends_left > 0
    /\ toDev' = toDev \o chunk
    /\ dev' = [dev EXCEPT !.sends_left = @ - 1]
    /\ UNCHANGED <<resumeFile, host, wire, scenario, codec>>

\* write_nand on the text transport, up to send_command("WRITE"): the line is
\* WRITE whatever the include_oob setting, which is kept beside it
HostWriteNand(include_oob) ==
    /\ dev.pc \in LegacyPcs /\ dev.sends_left > 0
    /\ host.op = "none"
    /\ toDev' = toDev \o <<L_WRITE, NL>>
    /\ host' = [host EXCEPT !.op = "WRITE", !.include_oob = include_oob]
    /\ dev' = [dev EXCEPT !.sends_left = @ - 1]
    /\ UNCHANGED <<resumeFile, wire, scenario, codec>>

\* The start of read_nand_operation / write_nand_operation / erase_nand_operation
LegacyStart(d, op, include_oob) ==
    [d EXCEPT !.pc = "lg_poll", !.at = "top", !.op = op, !.include_oob = include_oob,
              !.page = 0, !.buf = <<>>, !.cancelled = FALSE, !.paused = FALSE,
              !.started = 0, !.returned = 0, !.cancel_read = FALSE,
              !.units_after_cancel = 0]

\* main_loop, command loop: one line read by wait_for_command and dispatched
LegacyCommand ==
    /\ dev.pc = "lg_idle" /\ toDev # <<>>
    /\ LET r   == ReadLine(toDev)
           cmd == Strip(r.line)
       IN  /\ toDev' = r.rest
           /\ IF IsLine(cmd, L_STATUS)
              THEN wire' = wire \o <<TextOut("MODEL")>> /\ dev' = dev
              ELSE IF IsLine(cmd, L_READ)
              THEN wire' = wire /\ dev' = LegacyStart(dev, "READ", TRUE)
              ELSE IF IsLine(cmd, L_WRITE) \/ IsLine(cmd, L_WRITE_NO_OOB)
              THEN /\ wire' = wire \o <<TextOut("READY_FOR_DATA")>>
                   /\ dev' = LegacyStart(dev, "WRITE", IsLine(cmd, L_WRITE))
              ELSE IF IsLine(cmd, L_ERASE)
              THEN wire' = wire /\ dev' = LegacyStart(dev, "ERASE", TRUE)
              ELSE IF IsLine(cmd, L_CANCEL)
              THEN /\ wire' = wire \o <<TextOut("OPERATION_CANCELLED")>>
                   /\ dev' = [dev EXCEPT !.cancelled = TRUE]
              ELSE IF IsLine(cmd, L_PAUSE)
              THEN /\ wire' = wire \o <<TextOut("PAUSED")>>
                   /\ dev' = [dev EXCEPT !.paused = TRUE]
              ELSE IF IsLine(cmd, L_RESUME)
              THEN wire' = wire /\ dev' = [dev EXCEPT !.paused = FALSE]
              ELSE wire' = wire /\ dev' = dev
    /\ UNCHANGED <<resumeFile, host, scenario, codec>>

\* _poll_control up to its "while self.paused": a line is read if any byte waits
LegacyPoll ==
    /\ dev.pc = "lg_poll"
    /\ LET r   == ReadLine(toDev)
           cmd == Strip(r.line)
           d   == Consumes(dev, r.line)
           p   == IF IsLine(cmd, L_PAUSE) THEN [d EXCEPT !.paused = TRUE]
                  ELSE IF IsLine(cmd, L_RESUME) THEN [d EXCEPT !.paused = FALSE]
                  ELSE d
       IN  /\ toDev' = r.rest
           /\ IF IsLine(cmd, L_CANCEL)
              THEN LET a == Abort(d, wire) IN wire' = a.out /\ dev' = a.dev
              ELSE /\ wire' = IF IsLine(cmd, L_PAUSE)
                              THEN wire \o <<TextOut("PAUSED")>> ELSE wire
                   /\ dev' = IF p.paused THEN [p EXCEPT !.pc = "lg_paused"]
                             ELSE Proceed(p)
    /\ UNCHANGED <<resumeFile, host, scenario, codec>>

\* _poll_control, "while self.paused": one line read while paused
LegacyPaused ==
    /\ dev.pc = "lg_paused" /\ toDev # <<>>
    /\ LET r   == ReadLine(toDev)
           cmd == Strip(r.line)
           d   == Consumes(dev, r.line)
       IN  /\ toDev' = r.rest
           /\ IF IsLine(cmd, L_CANCEL)
              THEN LET a == Abort(d, wire) IN wire' = a.out /\ dev' = a.dev
              ELSE IF IsLine(cmd, L_RESUME)
              THEN wire' = wire /\ dev' = Proceed([d EXCEPT !.paused = FALSE])
              ELSE wire' = wire /\ dev' = d
    /\ UNCHANGED <<resumeFile, host, scenario, codec>>

\* Bytes a page takes on the wire in this WRITE
LegacyPageBytes(d) ==
    scenario.info.page_size
    + (IF d.include_oob THEN DevSpareSize(scenario.info.page_size) ELSE 0)

\* The unit is done: PROGRESS, and OPERATION_COMPLETE after the last one
LegacyAdvance(d, count, out) ==
    LET page == d.page
        prog == out \o <<ProgressLine(Percent(page, count))>>
        all  == prog \o <<TextOut("OPERATION_COMPLETE")>>
    IN  IF page + 1 >= count
        THEN [dev |-> LegacyFinished([d EXCEPT !.page = page + 1], "ok", all),
              out |-> all]
        ELSE [dev |-> [d EXCEPT !.page = page + 1, !.pc = "lg_poll", !.at = "top",
                                !.buf = <<>>],
              out |-> prog]

\* read_nand_operation: read_page, the page written raw, PROGRESS
LegacyReadPage(page_ok) ==
    /\ dev.pc = "lg_read"
    /\ LET d      == [dev EXCEPT !.units_after_cancel =
                                     IF dev.cancel_read THEN @ + 1 ELSE @]
           failed == wire \o <<TextOut("OPERATION_FAILED")>>
           a      == LegacyAdvance(d, TotalPages,
                                   wire \o <<DataOut(dev.flash[dev.page + 1])>>)
       IN  IF ~page_ok
           THEN wire' = failed /\ dev' = LegacyFinished(d, "failed", failed)
           ELSE wire' = a.out /\ dev' = a.dev
    /\ UNCHANGED <<resumeFile, host, toDev, scenario, codec>>

\* _read_exact, one turn of its loop after the poll: uart.read(n - len(buf))
\* when bytes wait, a sleep otherwise; then the check of the time spent
LegacyReceive(timed_out) ==
    /\ dev.pc = "lg_recv"
    /\ LET n      == Min(LegacyPageBytes(dev) - Len(dev.buf), Len(toDev))
           chunk  == Take(toDev, n)
           d      == Consumes([dev EXCEPT !.buf = @ \o chunk], chunk)
           failed == wire \o <<TextOut("OPERATION_FAILED")>>
       IN  /\ toDev' = Drop(toDev, n)
           /\ IF timed_out
              THEN wire' = failed /\ dev' = LegacyFinished(d, "failed", failed)
              ELSE /\ wire' = wire
                   /\ dev' = IF Len(d.buf) >= LegacyPageBytes(dev)
                             THEN [d EXCEPT !.pc = "lg_unit"]
                             ELSE [d EXCEPT !.pc = "lg_poll"]
    /\ UNCHANGED <<resumeFile, host, scenario, codec>>

\* write_page / erase_block up to the confirm command (10h / D0h): CE# is low
\* and the chip is busy
LegacyUnitStart ==
    /\ dev.pc = "lg_unit"
    /\ dev' = [dev EXCEPT !.pc = "lg_busy", !.ce = 0, !.busy = TRUE,
                          !.started = @ + 1,
                          !.units_after_cancel = IF dev.cancel_read THEN @ + 1 ELSE @]
    /\ UNCHANGED <<resumeFile, host, wire, toDev, scenario, codec>>

\* A ready wait that looks at the receive buffer and gives up on CANCEL
UnitWaitPolling(d, inbox, outcome, out) ==
    IF \E i \in 1..Len(inbox) : inbox[i] = L_CANCEL
    THEN LET all == out \o <<TextOut("OPERATION_CANCELLED")>>
         IN  [dev |-> LegacyFinished([d EXCEPT !.cancelled = TRUE], "cancelled", all),
              out |-> all]
    ELSE LET done == [d EXCEPT !.ce = 1, !.busy = FALSE, !.returned = @ + 1]
         IN  LegacyAdvance(done, IF d.op = "WRITE" THEN TotalPages
                                 ELSE scenario.info.blocks, out)

\* write_page / erase_block from wait_for_ready on: the wait ends (ready or
\* timed out), the status is read, CE# is released; then PROGRESS
UnitWait(d, inbox, outcome, out) ==
    LET page   == IF d.include_oob THEN d.buf
                  ELSE d.buf \o [i \in 1..DevSpareSize(scenario.info.page_size) |-> 0]
        flash  == IF outcome # "ok" THEN d.flash
                  ELSE IF d.op = "WRITE" THEN [d.flash EXCEPT ![d.page + 1] = page]
                  ELSE [p \in 1..TotalPages |->
                          IF (p - 1) \div scenario.info.block_size = d.page
                          THEN [i \in 1..DevPageTotal |-> 255]
                          ELSE d.flash[p]]
        done   == [d EXCEPT !.ce = 1, !.busy = FALSE, !.returned = @ + 1,
                            !.flash = flash]
        failed == out \o <<TextOut("OPERATION_FAILED")>>
    IN  IF outcome # "ok"
        THEN [dev |-> LegacyFinished(done, "failed", failed), out |-> failed]
        ELSE LegacyAdvance(done, IF d.op = "WRITE" THEN TotalPages
                                 ELSE scenario.info.blocks, out)

LegacyUnitEnd(outcome) ==
    /\ dev.pc = "lg_busy"
    /\ LET a == UnitWait(dev, toDev, outcome, wire)
       IN  wire' = a.out /\ dev' = a.dev
    /\ UNCHANGED <<resumeFile, host, toDev, scenario, codec>>

LegacyNext ==
    \/ \E letter \in CommandLines : HostSendsLine(letter)
    \/ \E chunk \in DataChunks : HostSendsData(chunk)
    \/ \E include_oob \in BOOLEAN : HostWriteNand(include_oob)
    \/ LegacyCommand
    \/ LegacyPoll
    \/ LegacyPaused
    \/ \E page_ok \in BOOLEAN : LegacyReadPage(page_ok)
    \/ \E timed_out \in BOOLEAN : LegacyReceive(timed_out)
    \/ LegacyUnitStart
    \/ \E outcome \in {"ok", "timeout", "status_fail"} : LegacyUnitEnd(outcome)

SpecLegacy == LegacyInit /\ [][LegacyNext]_vars

(***************************************************************************)
(* Properties of the device, text transport (specification SpecLegacy)     *)
(***************************************************************************)
CancelledLineOut ==
    /\ dev.pc = "lg_idle" /\ dev.last_op \in {"WRITE", "ERASE"}
    /\ dev.outcome = "cancelled"

\* C13: when the device has written OPERATION_CANCELLED for a WRITE or ERASE,
\* every page program or block erase it started has returned from its ready
\* wait and CE# is released; and CANCEL is not acted on while the chip is busy.
C13_CancelBetweenUnits ==
    /\ CancelledLineOut =>
          /\ dev.terminal = TextOut("OPERATION_CANCELLED")
          /\ dev.started = dev.returned
          /\ dev.ce = 1 /\ ~dev.busy
    /\ (dev.pc \in LegacyPcs /\ dev.busy) => ~dev.cancelled

C13_Witness ==
    /\ CancelledLineOut /\ dev.last_op = "ERASE"
    /\ dev.started = 1 /\ dev.returned = 1

\* C17: in a WRITE started by write_nand the device expects per page what the
\* host's include_oob setting says: page_size bytes when it is off, page_size +
\* spare_size bytes when it is on.
C17_SamePageBytes ==
    (host.op = "WRITE" /\ dev.pc \in LegacyPcs \ {"lg_idle"} /\ dev.op = "WRITE"
     /\ toDev = <<>> /\ dev.sends_left = MaxSends - 1) =>
        LegacyPageBytes(dev) =
            scenario.info.page_size
            + (IF host.include_oob THEN DevSpareSize(scenario.info.page_size) ELSE 0)

\* C35: during a WRITE on the text transport the control poll takes nothing
\* but complete CANCEL, PAUSE and RESUME lines out of the receive buffer, so
\* that every byte of page data reaches _read_exact.
C35_PollTakesOnlyControl ==
    [][(dev.pc \in {"lg_poll", "lg_paused"} /\ dev.op = "WRITE"
          /\ Len(toDev') < Len(toDev)) =>
         LET line == ReadLine(toDev).line
         IN  /\ line[Len(line)] = NL
             /\ Strip(line) \in {<<L_CANCEL>>, <<L_PAUSE>>, <<L_RESUME>>}]_vars

\* The lines that end an operation
TerminalTexts == {"OPERATION_COMPLETE", "OPERATION_FAILED", "OPERATION_CANCELLED"}

\* C36: every operation of the text firmware writes exactly one terminal line
\* whenever a CANCEL arrives: outside an operation, in the command loop, no
\* terminal line is written, be it for a CANCEL that came too late to stop the
\* operation or for one received while idle.
C36_NoTerminalLineWhileIdle ==
    [][(dev.pc = "lg_idle" /\ dev'.pc = "lg_idle" /\ Len(wire') > Len(wire)) =>
         wire'[Len(wire')].text \notin TerminalTexts]_vars

\* C30: while an operation is paused no page is read, programmed or erased and
\* nothing is written to the port; the pause ends on RESUME, the operation
\* going on with the unit that was next, or on CANCEL, the operation ending
\* cancelled, and in no other way.
C30_PauseStateMachine ==
    [][dev.pc = "lg_paused" =>
         /\ dev'.flash = dev.flash /\ dev'.page = dev.page
         /\ dev'.started = dev.started
         /\ \/ dev'.pc = "lg_paused" /\ wire' = wire
            \/ /\ dev'.pc \in {"lg_poll", "lg_read", "lg_recv", "lg_unit"}
               /\ ~dev'.paused /\ wire' = wire
            \/ /\ dev'.pc = "lg_idle" /\ dev'.outcome = "cancelled"
               /\ wire' = Append(wire, TextOut("OPERATION_CANCELLED"))]_vars

\* C14: once the device has taken a CANCEL out of the receive buffer during a
\* WRITE, it programs no further page of that WRITE: the CANCEL is recognised
\* as a control line and ends the operation.
C14_CancelEndsOperation ==
    (dev.pc \in LegacyPcs /\ dev.op = "WRITE") => dev.units_after_cancel = 0

(***************************************************************************)
(* Both firmwares: the device runs pico/main_performance.py on the framed  *)
(* transport or pico/main.py on the text transport                         *)
(***************************************************************************)
FirmwareInit == DevInit \/ LegacyInit
FirmwareNext == DevNext \/ LegacyNext
SpecFirmware == FirmwareInit /\ [][FirmwareNext]_vars

IsProgress(rec) ==
    \/ rec.kind = "frame" /\ rec.cmd = CMD_PROGRESS
    \/ rec.kind = "text" /\ rec.text = "PROGRESS"
\* What ends an operation on the wire
IsTerminal(rec) ==
    \/ rec.kind = "frame" /\ rec.cmd \in {CMD_COMPLETE, CMD_ERROR}
    \/ rec.kind = "text" /\ rec.text \in {"OPERATION_COMPLETE", "OPERATION_FAILED",
                                          "OPERATION_CANCELLED", "NAND_NOT_CONNECTED"}
ReportedPercent(rec) == rec.payload[1] + 256 * rec.payload[2]
HasIndex(rec) == Len(rec.payload) > 2
ReportedIndex(rec) == FromBytes(Drop(rec.payload, 2))
\* Reports i < j of one operation: no operation ends between them
SameOperation(i, j) ==
    /\ i < j /\ IsProgress(wire[i]) /\ IsProgress(wire[j])
    /\ \A k \in i..j : ~IsTerminal(wire[k])

\* C16: of two PROGRESS reports of one operation the later one has a percent,
\* and a page or block index, at least as large as the earlier one.
C16_ProgressMonotonic ==
    \A i, j \in 1..Len(wire) :
        SameOperation(i, j) =>
            /\ ReportedPercent(wire[i]) <= ReportedPercent(wire[j])
            /\ (HasIndex(wire[i]) /\ HasIndex(wire[j])) =>
                  ReportedIndex(wire[i]) <= ReportedIndex(wire[j])

\* Two reports of a READ that started at page 1 from the device's cursor
C16_Witness ==
    \E i, j \in 1..Len(wire) :
        /\ SameOperation(i, j)
        /\ HasIndex(wire[i]) /\ HasIndex(wire[j])
        /\ 0 < ReportedIndex(wire[i]) /\ ReportedIndex(wire[i]) < ReportedIndex(wire[j])
        /\ \E k \in 1..(i - 1) : IsTerminal(wire[k])
        /\ \A k \in 1..(i - 1) :
              (\A m \in k..(i - 1) : ~IsTerminal(wire[m])) => ~IsProgress(wire[k])

(***************************************************************************)
(* The resume file on disk.  Here resumeFile is [exists, text], text the   *)
(* sequence of JSON tokens the file holds; host is the process that saves  *)
(* (its position in _save_resume_state, the text still in the buffer of    *)
(* the open file) and codec the result of the latest load, which may come  *)
(* from another thread (get_resume_state) or from the start of read_nand,  *)
(* write_nand or erase_nand.  The file found at the start is whatever was  *)
(* left on disk.                                                           *)
(***************************************************************************)
MaxSaves == 2
MaxSavePage == 1

Token(kind, key, str, num, crc) ==
    [kind |-> kind, key |-> key, str |-> str, num |-> num, crc |-> crc]
\* A JSON string where a number belongs, as the dictionary holds it
NotAnInt == -2
OpenBrace == Token("{", "", "", 0, NoCrc)
CloseBrace == Token("}", "", "", 0, NoCrc)

\* json.dump(state, f, indent=2): the keys the dictionary has, in order
JsonDump(state) ==
    <<OpenBrace>>
    \o (IF state.operation = "none" THEN <<>>
        ELSE <<Token("pair", "operation", state.operation, 0, NoCrc)>>)
    \o (IF state.last_page = Absent THEN <<>>
        ELSE <<Token("pair", "last_page", "", state.last_page, NoCrc)>>)
    \o (IF state.page_crc32 = NoCrc THEN <<>>
        ELSE <<Token("pair", "page_crc32", "", 0, state.page_crc32)>>)
    \o (IF state.bytes_sent = Absent THEN <<>>
        ELSE <<Token("pair", "bytes_sent", "", state.bytes_sent, NoCrc)>>)
    \o (IF state.chunk_crc32 = NoCrc THEN <<>>
        ELSE <<Token("pair", "chunk_crc32", "", 0, state.chunk_crc32)>>)
    \o (IF state.erase_block = Absent THEN <<>>
        ELSE <<Token("pair", "erase_block", "", state.erase_block, NoCrc)>>)
    \o <<CloseBrace>>

\* json.load accepts the text: an object from its opening to its closing brace
JsonWellFormed(text) ==
    /\ Len(text) >= 2
    /\ text[1] = OpenBrace /\ text[Len(text)] = CloseBrace
    /\ \A i \in 2..(Len(text) - 1) : text[i].kind = "pair"

RECURSIVE JsonObject(_, _)
JsonObject(pairs, state) ==
    IF pairs = <<>> THEN state
    ELSE LET t == Head(pairs)
             n == IF t.str = "" THEN t.num ELSE NotAnInt
             s == IF t.key = "operation" THEN [state EXCEPT !.operation = t.str]
                  ELSE IF t.key = "last_page" THEN [state EXCEPT !.last_page = n]
                  ELSE IF t.key = "page_crc32" THEN [state EXCEPT !.page_crc32 = t.crc]
                  ELSE IF t.key = "bytes_sent" THEN [state EXCEPT !.bytes_sent = n]
                  ELSE IF t.key = "chunk_crc32" THEN [state EXCEPT !.chunk_crc32 = t.crc]
                  ELSE [state EXCEPT !.erase_block = n]
         IN  JsonObject(Tail(pairs), s)

\* json.load: the object, a value that is not an object (a number, a list,
\* null: one token), or JSONDecodeError
JsonLoad(text) ==
    IF JsonWellFormed(text)
    THEN [kind |-> "dict",
          dict |-> JsonObject(SubSeq(text, 2, Len(text) - 1), EmptyDict)]
    ELSE IF Len(text) = 1 /\ text[1].kind = "value"
    THEN [kind |-> "value", dict |-> EmptyDict]
    ELSE [kind |-> "raises", dict |-> EmptyDict]

\* _load_resume_state on the file as it is on disk: {} when there is no file
\* or json.load raises, what json.load returns otherwise
LoadResumeFile(file) ==
    IF ~file.exists \/ JsonLoad(file.text).kind = "raises"
    THEN [kind |-> "dict", dict |-> EmptyDict]
    ELSE JsonLoad(file.text)

\* resume.get("operation") == op and int(resume.get(key, 0)), as read_nand,
\* write_nand and erase_nand begin: "raises" for a value without get and for
\* int() of a string that is no number
ResumeStart(loaded, op) ==
    LET d   == loaded.dict
        pos == IF op = "READ" THEN d.last_page
               ELSE IF op = "WRITE" THEN d.bytes_sent ELSE d.erase_block
    IN  IF loaded.kind # "dict" THEN [raises |-> TRUE, start |-> 0]
        ELSE IF d.operation # op THEN [raises |-> FALSE, start |-> 0]
        ELSE IF pos = NotAnInt THEN [raises |-> TRUE, start |-> 0]
        ELSE [raises |-> FALSE, start |-> GetInt(pos)]

\* What the files left on disk may hold besides a checkpoint: a text cut off,
\* a JSON value that is no object, an object with a string for a number
FoundTexts ==
    { <<OpenBrace, Token("pair", "operation", "READ", 0, NoCrc)>>,
      <<Token("value", "", "", 3, NoCrc)>>,
      <<OpenBrace, Token("pair", "operation", "READ", 0, NoCrc),
        Token("pair", "last_page", "x", 0, NoCrc), CloseBrace>>,
      <<OpenBrace, Token("pair", "operation", "WRITE", 0, NoCrc),
        Token("pair", "bytes_sent", "x", 0, NoCrc), CloseBrace>>,
      <<OpenBrace, Token("pair", "operation", "ERASE", 0, NoCrc),
        Token("pair", "erase_block", "x", 0, NoCrc), CloseBrace>> }
FoundFiles == {[exists |-> FALSE, text |-> <<>>]}
              \cup {[exists |-> TRUE, text |-> t] : t \in FoundTexts}

\* The file is not a checkpoint: no JSON, no object, or a field of a wrong type
Malformed(file) ==
    /\ file.exists
    /\ LET v == JsonLoad(file.text)
       IN  \/ v.kind # "dict"
           \/ NotAnInt \in {v.dict.last_page, v.dict.bytes_sent, v.dict.erase_block}

\* The dictionaries read_nand and erase_nand save
SavedStates ==
    { [EmptyDict EXCEPT !.operation = "READ", !.last_page = p,
                        !.page_crc32 = CalculateChunkHash(PagePayload(p, 1))]
        : p \in 0..MaxSavePage }
    \cup { [EmptyDict EXCEPT !.operation = "ERASE", !.erase_block = b]
             : b \in 0..MaxSavePage }

NoFile == [exists |-> FALSE, text |-> <<>>]
SaverIdle == [pc |-> "sv_idle", buffer |-> <<>>, previous |-> NoFile, next |-> NoFile,
              saves_left |-> MaxSaves]
NothingLoaded == [pc |-> "sv_none", op |-> "none", malformed |-> FALSE,
                  result |-> [kind |-> "dict", dict |-> EmptyDict],
                  outcome |-> "none", start |-> 0]

SaveInit ==
    /\ resumeFile \in FoundFiles
    /\ host = [SaverIdle EXCEPT !.previous = resumeFile, !.next = resumeFile]
    /\ codec = NothingLoaded
    /\ wire = <<>>
    /\ toDev = <<>>
    /\ scenario = [op |-> "save", connected |-> TRUE, ckpt |-> FileAbsent]
    /\ dev = DevParked

\* _save_resume_state, open(self._resume_path, 'w'): the file is created or
\* truncated; json.dump writes into the buffer of the open file
SaveOpen(state) ==
    /\ host.pc = "sv_idle" /\ host.saves_left > 0
    /\ resumeFile' = [exists |-> TRUE, text |-> <<>>]
    /\ host' = [host EXCEPT !.pc = "sv_open", !.buffer = JsonDump(state),
                            !.previous = resumeFile,
                            !.next = [exists |-> TRUE, text |-> JsonDump(state)],
                            !.saves_left = @ - 1]
    /\ UNCHANGED <<wire, toDev, scenario, codec, dev>>

\* The buffer is flushed in part: n tokens reach the disk
SaveFlush(n) ==
    /\ host.pc = "sv_open" /\ n < Len(host.buffer)
    /\ resumeFile' = [resumeFile EXCEPT !.text = @ \o Take(host.buffer, n)]
    /\ host' = [host EXCEPT !.buffer = Drop(@, n)]
    /\ UNCHANGED <<wire, toDev, scenario, codec, dev>>

\* The end of the with block: the rest is flushed and the file closed
SaveClose ==
    /\ host.pc = "sv_open"
    /\ resumeFile' = [resumeFile EXCEPT !.text = @ \o host.buffer]
    /\ host' = [host EXCEPT !.pc = "sv_idle", !.buffer = <<>>,
                            !.previous = host.next]
    /\ UNCHANGED <<wire, toDev, scenario, codec, dev>>

\* The process dies during the save; what is in the buffer is lost
SaveCrash ==
    /\ host.pc = "sv_open"
    /\ host' = [host EXCEPT !.pc = "sv_crashed", !.buffer = <<>>]
    /\ UNCHANGED <<resumeFile, wire, toDev, scenario, codec, dev>>

\* The program is started again
SaveRestart ==
    /\ host.pc = "sv_crashed"
    /\ host' = [host EXCEPT !.pc = "sv_idle", !.previous = resumeFile,
                            !.next = resumeFile]
    /\ UNCHANGED <<resumeFile, wire, toDev, scenario, codec, dev>>

\* get_resume_state / _load_resume_state, at any moment of a save
ConcurrentLoad ==
    /\ codec' = [NothingLoaded EXCEPT
                    !.pc = IF host.pc = "sv_open" THEN "sv_during" ELSE "sv_between",
                    !.malformed = Malformed(resumeFile),
                    !.result = LoadResumeFile(resumeFile)]
    /\ UNCHANGED <<resumeFile, host, wire, toDev, scenario, dev>>

\* read_nand / write_nand / erase_nand from the load of the resume file to the
\* first frame read or chunk sent: read_nand and erase_nand catch what is
\* raised and return None / False, write_nand lets it out
OperationStart(op) ==
    /\ host.pc = "sv_idle"
    /\ LET loaded == LoadResumeFile(resumeFile)
           r      == ResumeStart(loaded, op)
       IN  codec' = [NothingLoaded EXCEPT
                       !.pc = "sv_started", !.op = op,
                       !.malformed = Malformed(resumeFile),
                       !.result = loaded,
                       !.outcome = IF ~r.raises THEN "proceeds"
                                   ELSE IF op = "WRITE" THEN "raises" ELSE "fails",
                       !.start = r.start]
    /\ UNCHANGED <<resumeFile, host, wire, toDev, scenario, dev>>

SaveNext ==
    \/ \E state \in SavedStates : SaveOpen(state)
    \/ \E n \in 1..3 : SaveFlush(n)
    \/ SaveClose
    \/ SaveCrash
    \/ SaveRestart
    \/ ConcurrentLoad
    \/ \E op \in {"READ", "WRITE", "ERASE"} : OperationStart(op)

SpecSave == SaveInit /\ [][SaveNext]_vars

\* C19: at every point of a save that replaces a checkpoint, and after a crash
\* in it, the file on disk is the complete previous checkpoint or the complete
\* new one.
C19_FileOldOrNew ==
    (host.pc \in {"sv_idle", "sv_open", "sv_crashed"}
     /\ host.previous.exists /\ ~Malformed(host.previous)) =>
        resumeFile \in {host.previous, host.next}

\* C20: a READ, WRITE or ERASE that finds a malformed resume file starts as it
\* does without a file: from the beginning, without failing or raising.
C20_MalformedIsNoCheckpoint ==
    (codec.pc = "sv_started" /\ codec.malformed) =>
        codec.outcome = "proceeds" /\ codec.start = 0

(***************************************************************************)
(* Start-up of the firmware: NANDFlasher.main_loop of pico/main.py and of  *)
(* pico/main_performance.py.  The two loops are the same text loop; the    *)
(* performance firmware tests the port for the magic at the top of it.     *)
(***************************************************************************)
MaxBootSends == 3
MaxBootTurns == 2

\* The first entries of supported_nand, in dictionary order
Names == <<"Samsung K9F4G08U0A", "Samsung K9F1G08U0A">>

\* b"STATUS\n", b"y\n", b"Y\n", b"n\n", b"REDETECT\n", b"EXIT\n", b"SELECT:"
STATUS_LINE == <<83, 84, 65, 84, 85, 83, 10>>
YES_LINE == <<121, 10>>
YES_UPPER_LINE == <<89, 10>>
NO_LINE == <<110, 10>>
REDETECT_LINE == <<82, 69, 68, 69, 84, 69, 67, 84, 10>>
EXIT_LINE == <<69, 88, 73, 84, 10>>
SELECT_PREFIX == <<83, 69, 76, 69, 67, 84, 58>>
\* Arguments of SELECT: "0" .. "3", "x", "", "2:1", "12"
SelectArgs == { <<48>>, <<49>>, <<50>>, <<51>>, <<120>>, <<>>, <<50, 58, 49>>, <<49, 50>> }
SelectLines == { SELECT_PREFIX \o a \o <<NL>> : a \in SelectArgs }
BootLines == { STATUS_LINE, YES_LINE, YES_UPPER_LINE, NO_LINE, REDETECT_LINE, EXIT_LINE }
                \cup SelectLines
BootMessages == BootLines \cup { Frame(CMD_STATUS, <<>>) }

\* bytes.decode('utf-8') succeeds
RECURSIVE Utf8Valid(_)
Utf8Valid(b) ==
    LET Cont(i) == i <= Len(b) /\ b[i] >= 128 /\ b[i] <= 191
    IN  IF b = <<>> THEN TRUE
        ELSE IF b[1] < 128 THEN Utf8Valid(Tail(b))
        ELSE IF b[1] >= 194 /\ b[1] <= 223
             THEN Cont(2) /\ Utf8Valid(Drop(b, 2))
        ELSE IF b[1] >= 224 /\ b[1] <= 239
             THEN /\ Cont(2) /\ Cont(3)
                  /\ (b[1] = 224 => b[2] >= 160)
                  /\ (b[1] = 237 => b[2] <= 159)
                  /\ Utf8Valid(Drop(b, 3))
        ELSE IF b[1] >= 240 /\ b[1] <= 244
             THEN /\ Cont(2) /\ Cont(3) /\ Cont(4)
                  /\ (b[1] = 240 => b[2] >= 144)
                  /\ (b[1] = 244 => b[2] <= 143)
                  /\ Utf8Valid(Drop(b, 4))
        ELSE FALSE

\* cmd.lower()
Lower(cmd) == [i \in 1..Len(cmd) |-> IF cmd[i] >= 65 /\ cmd[i] <= 90 THEN cmd[i] + 32 ELSE cmd[i]]

\* cmd.startswith("SELECT:")
StartsWithSelect(cmd) == Len(cmd) >= Len(SELECT_PREFIX) /\ Take(cmd, Len(SELECT_PREFIX)) = SELECT_PREFIX

\* cmd.split(":")[1] of a command that starts with "SELECT:"
SplitSecond(cmd) ==
    LET after  == Drop(cmd, Len(SELECT_PREFIX))
        colons == {i \in 1..Len(after) : after[i] = 58}
    IN  IF colons = {} THEN after
        ELSE Take(after, (CHOOSE i \in colons : \A j \in colons : i <= j) - 1)

\* int(text) of a text without sign, blanks or underscores: ValueError unless it
\* is a non-empty run of decimal digits
RECURSIVE DecimalValue(_)
DecimalValue(t) ==
    IF t = <<>> THEN 0 ELSE 10 * DecimalValue(Take(t, Len(t) - 1)) + (t[Len(t)] - 48)
IntOf(t) ==
    IF t # <<>> /\ \A i \in 1..Len(t) : t[i] >= 48 /\ t[i] <= 57
    THEN [ok |-> TRUE, val |-> DecimalValue(t)]
    ELSE [ok |-> FALSE, val |-> 0]

\* select_nand_manually, the body of its loop: the name adopted by cmd, "" when
\* the loop goes round again
Selected(cmd) ==
    IF ~StartsWithSelect(cmd) THEN ""
    ELSE LET n == IntOf(SplitSecond(cmd))
         IN  IF n.ok /\ 0 <= n.val - 1 /\ n.val - 1 < Len(Names) THEN Names[n.val] ELSE ""

\* A "{i+1}:{name}" line of the registry listing
ListLine(i, name) == [kind |-> "list", cmd |-> i, payload |-> <<>>, text |-> name]
ModelLine(name) == [kind |-> "text", cmd |-> CMD_MODEL, payload |-> <<>>, text |-> name]

\* send_status: a MODEL frame in binary mode, a MODEL: line otherwise
SendStatus(binary_mode, name) ==
    LET model == IF name = "" THEN "UNKNOWN" ELSE name
    IN  IF binary_mode THEN FrameOut(CMD_MODEL, <<>>, model) ELSE ModelLine(model)

\* detect_nand: the chip of the run answers with the identifier of the first
\* registry entry, or with none that the registry lists
BootDetect == IF scenario.chip THEN Names[1] ELSE ""

BootIdle ==
    [pc |-> "boot", binary_mode |-> FALSE, current_nand |-> "",
     first |-> <<>>, consumed |-> 0, last_cmd |-> <<>>,
     sends_left |-> MaxBootSends, turns_left |-> MaxBootTurns]

BootInit ==
    /\ \E fw \in {"main", "performance"} : \E chip \in BOOLEAN :
          scenario = [op |-> "start-up", connected |-> TRUE, ckpt |-> FileAbsent,
                      firmware |-> fw, chip |-> chip]
    /\ dev = BootIdle
    /\ toDev = <<>>
    /\ wire = <<>>
    /\ resumeFile = FileAbsent
    /\ host = HostIdle
    /\ codec = [input |-> <<>>, output |-> <<>>]

\* The host writes a command line or a STATUS frame to the port
BootHostSends(msg) ==
    /\ dev.pc \notin {"exited", "crashed"}
    /\ dev.sends_left > 0
    /\ toDev = <<>>
    /\ toDev' = msg
    /\ dev' = [dev EXCEPT !.sends_left = @ - 1,
                          !.first = IF dev.first = <<>> THEN Take(msg, 2) ELSE @]
    /\ UNCHANGED <<resumeFile, host, wire, scenario, codec>>

\* One pass of the frame loop of main_loop for the command cmd
BinaryTurn(cmd, nand) ==
    LET detected == IF nand = "" THEN BootDetect ELSE nand
    IN  [current_nand |-> detected,
         out |-> (IF nand = "" THEN <<SendStatus(TRUE, detected)>> ELSE <<>>)
                 \o (IF cmd = CMD_STATUS THEN <<SendStatus(TRUE, detected)>> ELSE <<>>)]

\* The bytes of the port left after a frame was read from it
AfterFrame(buf) ==
    IF MagicEnds(buf) = {} THEN <<>>
    ELSE LET m      == CHOOSE i \in MagicEnds(buf) : \A j \in MagicEnds(buf) : i <= j
             header == ReadExact(Drop(buf, m), 5)
             length == IF header.ok THEN FromBytes(Drop(header.data, 1)) ELSE 0
             body   == ReadExact(header.rest, length)
         IN  IF ~header.ok THEN <<>> ELSE ReadExact(body.rest, 4).rest

\* The top of main_loop: the magic test of the performance firmware, then the
\* detection of text mode and its report or its prompt
BootTop ==
    /\ dev.pc = "boot"
    /\ LET tests  == scenario.firmware = "performance" /\ Len(toDev) >= 2
           first  == IF tests THEN Take(toDev, 2) ELSE <<>>
           binary == tests /\ first = MAGIC
           frame  == DevReadFrame(toDev)
           turn   == BinaryTurn(frame.cmd, dev.current_nand)
       IN  IF binary
           THEN /\ dev' = [dev EXCEPT !.pc = "binary", !.binary_mode = TRUE,
                                      !.current_nand = turn.current_nand,
                                      !.consumed = @ + Len(toDev) - Len(AfterFrame(toDev))]
                /\ wire' = wire \o turn.out
                /\ toDev' = AfterFrame(toDev)
           ELSE /\ toDev' = IF tests THEN Drop(toDev, 2) ELSE toDev
                /\ dev' = [dev EXCEPT !.pc = IF BootDetect = "" THEN "prompt" ELSE "command",
                                      !.current_nand = BootDetect,
                                      !.consumed = IF tests THEN @ + 2 ELSE @]
                /\ wire' = wire \o <<TextOut("DETECTING"),
                                      IF BootDetect = "" THEN TextOut("PROMPT")
                                      ELSE SendStatus(FALSE, BootDetect)>>
    /\ UNCHANGED <<resumeFile, host, scenario, codec>>

\* wait_for_command with a line in the port: the line, whether it decodes, and
\* the command
BootRead ==
    LET r == ReadLine(toDev)
    IN  [ok |-> Utf8Valid(r.line), cmd |-> Strip(r.line), rest |-> r.rest, n |-> Len(r.line)]

\* The prompt loop of main_loop: 'y' starts select_nand_manually, which lists
\* the registry, 'n' leaves the program
BootPrompt ==
    /\ dev.pc = "prompt"
    /\ toDev # <<>>
    /\ toDev' = BootRead.rest
    /\ IF ~BootRead.ok
       THEN /\ dev' = [dev EXCEPT !.pc = "crashed", !.consumed = @ + BootRead.n,
                                  !.last_cmd = BootRead.cmd]
            /\ wire' = wire
       ELSE IF Lower(BootRead.cmd) = <<121>>
       THEN /\ dev' = [dev EXCEPT !.pc = "select", !.consumed = @ + BootRead.n,
                                  !.last_cmd = BootRead.cmd]
            /\ wire' = wire \o <<TextOut("MANUAL_SELECT_START")>>
                            \o [i \in 1..Len(Names) |-> ListLine(i, Names[i])]
                            \o <<TextOut("MANUAL_SELECT_END")>>
       ELSE /\ dev' = [dev EXCEPT !.pc = IF Lower(BootRead.cmd) = <<110>> THEN "exited" ELSE @,
                                  !.consumed = @ + BootRead.n, !.last_cmd = BootRead.cmd]
            /\ wire' = wire
    /\ UNCHANGED <<resumeFile, host, scenario, codec>>

\* The 30 seconds of the prompt pass: sys.exit()
BootPromptTimeout ==
    /\ dev.pc = "prompt"
    /\ dev' = [dev EXCEPT !.pc = "exited"]
    /\ UNCHANGED <<resumeFile, host, wire, toDev, scenario, codec>>

\* The loop of select_nand_manually, and the break of the prompt loop that
\* follows its return
BootSelect ==
    /\ dev.pc = "select"
    /\ toDev # <<>>
    /\ toDev' = BootRead.rest
    /\ dev' = [dev EXCEPT !.pc = IF ~BootRead.ok THEN "crashed"
                                 ELSE IF Selected(BootRead.cmd) # "" THEN "command" ELSE @,
                          !.current_nand = IF BootRead.ok THEN Selected(BootRead.cmd) ELSE @,
                          !.consumed = @ + BootRead.n, !.last_cmd = BootRead.cmd]
    /\ UNCHANGED <<resumeFile, host, wire, scenario, codec>>

\* The command loop of main_loop
BootCommand ==
    /\ dev.pc = "command"
    /\ toDev # <<>>
    /\ toDev' = BootRead.rest
    /\ dev' = [dev EXCEPT !.pc = IF ~BootRead.ok THEN "crashed"
                                 ELSE IF BootRead.cmd = Strip(EXIT_LINE) THEN "exited"
                                 ELSE IF BootRead.cmd = Strip(REDETECT_LINE) THEN "boot"
                                 ELSE @,
                          !.consumed = @ + BootRead.n, !.last_cmd = BootRead.cmd]
    /\ wire' = IF BootRead.ok /\ BootRead.cmd = Strip(STATUS_LINE)
               THEN Append(wire, SendStatus(FALSE, dev.current_nand)) ELSE wire
    /\ UNCHANGED <<resumeFile, host, scenario, codec>>

\* The frame loop of main_loop: the next frame, or CMD_ERROR when none arrives
BootBinaryFrame ==
    /\ dev.pc = "binary"
    /\ toDev # <<>> \/ dev.turns_left > 0
    /\ LET turn == BinaryTurn(DevReadFrame(toDev).cmd, dev.current_nand)
       IN  /\ dev' = [dev EXCEPT !.current_nand = turn.current_nand,
                                 !.consumed = @ + Len(toDev) - Len(AfterFrame(toDev)),
                                 !.turns_left = IF toDev = <<>> THEN @ - 1 ELSE @]
           /\ wire' = wire \o turn.out
    /\ toDev' = AfterFrame(toDev)
    /\ UNCHANGED <<resumeFile, host, scenario, codec>>

BootNext ==
    \/ \E msg \in BootMessages : BootHostSends(msg)
    \/ BootTop
    \/ BootPrompt
    \/ BootPromptTimeout
    \/ BootSelect
    \/ BootCommand
    \/ BootBinaryFrame

SpecBoot == BootInit /\ [][BootNext]_vars

\* C23: when the first two bytes the host sends are the magic, the device is in
\* binary mode once it has read them, whenever they arrive.
C23_MagicEntersBinary ==
    (scenario.op = "start-up" /\ scenario.firmware = "performance"
       /\ dev.first = MAGIC /\ dev.consumed >= 2) => dev.binary_mode

\* C24: once detection has found no chip, the device has reported the model
\* UNKNOWN and is in manual selection (or past it, a listed index adopted).
C24_UnknownEntersSelection ==
    (scenario.op = "start-up" /\ scenario.firmware = "main" /\ ~scenario.chip
       /\ dev.pc # "boot") =>
        /\ dev.pc \in {"select", "command"}
        /\ \E i \in 1..Len(wire) : wire[i] = ModelLine("UNKNOWN")
        /\ \E i \in 1..Len(wire) : wire[i] = TextOut("MANUAL_SELECT_START")

(***************************************************************************)
(* Page verification on the host: src/main/src/utils/ecc.py                *)
(***************************************************************************)
SECTOR == 512
MaxEccPos == 2
MaxEccData == 2

Bit(x, i) == (x \div (2^i)) % 2
\* a & b of two bytes
AndByte(a, b) ==
    LET bit(i) == Bit(a, i) * Bit(b, i) * (2^i)
    IN  bit(0) + bit(1) + bit(2) + bit(3) + bit(4) + bit(5) + bit(6) + bit(7)
\* parity[x]: bin(x).count("1") & 1
Parity(x) ==
    (Bit(x, 0) + Bit(x, 1) + Bit(x, 2) + Bit(x, 3)
     + Bit(x, 4) + Bit(x, 5) + Bit(x, 6) + Bit(x, 7)) % 2
Xor16(a, b) == 256 * XorByte(a \div 256, b \div 256) + XorByte(a % 256, b % 256)

\* The inner loop of _crc16_ccitt: n shifts of the 16-bit register
RECURSIVE Crc16Rounds(_, _)
Crc16Rounds(n, crc) ==
    IF n = 0 THEN crc
    ELSE Crc16Rounds(n - 1, IF crc >= 32768
                            THEN Xor16((crc * 2) % 65536, 4129)
                            ELSE (crc * 2) % 65536)

\* _crc16_ccitt(data) with poly 0x1021 and init 0xFFFF
Crc16Ccitt(data) ==
    LET loop[i \in 1..(Len(data) + 1)] ==
            IF i = 1 THEN 65535
            ELSE Crc16Rounds(8, Xor16(loop[i - 1], data[i - 1] * 256))
    IN  loop[Len(data) + 1] % 65536

\* crc.to_bytes(2, 'little') and int.from_bytes(b, 'little') of two bytes
Le16(v) == <<v % 256, v \div 256>>
FromLe16(b) == b[1] + 256 * b[2]

Shr16(x) == <<x[3], x[4], 0, 0>>
\* v ^= v >> 16; v ^= v >> 8; v & 0xFF
FoldWord(v) ==
    LET a == Xor32(v, Shr16(v))
    IN  Xor32(a, Shr8(a))[1]

\* The 32-bit words lo..hi of b whose index has bit k equal to v, xor-ed
\* together (the loop "for i in range(64)", its range halved at each step)
RECURSIVE XorWords(_, _, _, _, _)
XorWords(b, lo, hi, k, v) ==
    IF lo = hi
    THEN IF Bit(lo, k) = v
         THEN <<b[4 * lo + 1], b[4 * lo + 2], b[4 * lo + 3], b[4 * lo + 4]>>
         ELSE <<0, 0, 0, 0>>
    ELSE LET mid   == (lo + hi) \div 2
             left  == XorWords(b, lo, mid, k, v)
             right == XorWords(b, mid + 1, hi, k, v)
         IN  Xor32(left, right)

\* _calc_hamming_512_3byte(buf)
CalcHamming(buf) ==
    LET b == IF Len(buf) < SECTOR
             THEN buf \o [i \in 1..(SECTOR - Len(buf)) |-> 0]
             ELSE Take(buf, SECTOR)
        \* the accumulator of the words whose index has bit k equal to v
        acc[k \in 0..5, v \in 0..1] == XorWords(b, 0, 63, k, v)
        par0 == Xor32(acc[0, 0], acc[0, 1])
        \* rp4..rp15 folded to a byte: rp[4 + 2k + v]
        rp(n) == FoldWord(acc[(n - 4) \div 2, (n - 4) % 2])
        rp3  == XorByte(par0[3], par0[4])
        rp2  == XorByte(par0[1], par0[2])
        par1 == Xor32(par0, Shr16(par0))
        rp1  == par1[2]
        rp0  == par1[1]
        par  == Xor32(par1, Shr8(par1))[1]
        c0 == Parity(rp(7)) * 128 + Parity(rp(6)) * 64 + Parity(rp(5)) * 32
              + Parity(rp(4)) * 16 + Parity(rp3) * 8 + Parity(rp2) * 4
              + Parity(rp1) * 2 + Parity(rp0)
        c1 == Parity(rp(15)) * 128 + Parity(rp(14)) * 64 + Parity(rp(13)) * 32
              + Parity(rp(12)) * 16 + Parity(rp(11)) * 8 + Parity(rp(10)) * 4
              + Parity(rp(9)) * 2 + Parity(rp(8))
        c2 == Parity(AndByte(par, 240)) * 128 + Parity(AndByte(par, 15)) * 64
              + Parity(AndByte(par, 204)) * 32 + Parity(AndByte(par, 51)) * 16
              + Parity(AndByte(par, 170)) * 8 + Parity(AndByte(par, 85)) * 4
    IN  <<XorByte(c0, 255), XorByte(c1, 255), XorByte(c2, 255)>>

\* verify_and_correct(data, oob, scheme, sector_size, bytes_per_sector,
\* oob_offset): the pair (data, errors)
VerifyAndCorrect(data, oob, scheme, sector_size, bytes_per_sector, oob_offset) ==
    IF scheme = "none" THEN [data |-> data, errors |-> <<>>]
    ELSE IF scheme = "crc16"
    THEN IF Len(oob) < 2 THEN [data |-> data, errors |-> <<>>]
         ELSE IF Crc16Ccitt(data) # FromLe16(Take(oob, 2))
         THEN [data |-> data, errors |-> <<-1>>]
         ELSE [data |-> data, errors |-> <<>>]
    ELSE IF scheme = "hamming_512_3byte"
    THEN IF sector_size <= 0 \/ bytes_per_sector <= 0
         THEN [data |-> data, errors |-> <<>>]
         ELSE LET sectors == Len(data) \div sector_size
                  e1(s)   == oob_offset + s * bytes_per_sector + bytes_per_sector
                  ecc(s)  == PySlice(oob, oob_offset + s * bytes_per_sector, e1(s))
                  sect(s) == PySlice(data, s * sector_size, s * sector_size + sector_size)
                  bad(s)  == /\ e1(s) <= Len(oob)
                             /\ \/ Len(ecc(s)) < 3
                                \/ CalcHamming(sect(s)) # Take(ecc(s), 3)
              IN  [data |-> data,
                   errors |-> SelectSeq([i \in 1..sectors |-> i - 1], bad)]
    ELSE [data |-> data, errors |-> <<>>]

\* Inputs: a blank sector and a sector of zeros, one byte of it replaced
BlankSector == [i \in 1..SECTOR |-> 255]
ZeroSector == [i \in 1..SECTOR |-> 0]
EccPositions == {1, SECTOR} \cup {1 + 4 * p : p \in 1..MaxEccPos}
EccValues == {0, 15, 127, 254, 255}
WithByte(sector, pos, v) == [sector EXCEPT ![pos] = v]

\* Pages for the CRC16 scheme: up to MaxEccData bytes
EccData == UNION { [1..n -> {1, 255}] : n \in 0..MaxEccData }

HammingInputs ==
    { [op |-> "ECC", scheme |-> "hamming_512_3byte", original |-> o,
       data |-> WithByte(o, p, v), oob |-> pad \o CalcHamming(o),
       sector_size |-> SECTOR, bytes_per_sector |-> n, oob_offset |-> Len(pad)] :
        o \in {BlankSector, ZeroSector}, p \in EccPositions, v \in EccValues,
        n \in {2, 3}, pad \in {<<>>, <<255>>} }

\* The stored CRC is the page's, or differs from it in one bit, and sits at
\* the offset at or next to the start of the OOB; or the OOB is too short
Crc16Inputs ==
    { [op |-> "ECC", scheme |-> s, original |-> d, data |-> d,
       oob |-> IF short THEN <<255>>
               ELSE [i \in 1..at |-> 255]
                    \o Le16(IF right THEN Crc16Ccitt(d) ELSE Xor16(Crc16Ccitt(d), 1))
                    \o <<255, 255>>,
       sector_size |-> SECTOR, bytes_per_sector |-> 2, oob_offset |-> off] :
        s \in {"crc16", "none", "other"}, d \in EccData, short \in BOOLEAN,
        right \in BOOLEAN, at \in {0, 2}, off \in {0, 2} }

EccIdle == [pc |-> "idle", data |-> <<>>, errors |-> <<>>]

EccInit ==
    /\ scenario \in HammingInputs \cup Crc16Inputs
    /\ codec = EccIdle
    /\ dev = DevParked
    /\ host = HostIdle
    /\ resumeFile = FileAbsent
    /\ wire = <<>>
    /\ toDev = <<>>

\* The caller hands the page and its OOB to verify_and_correct
EccVerify ==
    /\ codec.pc = "idle"
    /\ LET r == VerifyAndCorrect(scenario.data, scenario.oob, scenario.scheme,
                                 scenario.sector_size, scenario.bytes_per_sector,
                                 scenario.oob_offset)
       IN  codec' = [codec EXCEPT !.pc = "done", !.data = r.data, !.errors = r.errors]
    /\ UNCHANGED <<resumeFile, host, wire, toDev, scenario, dev>>

EccNext == EccVerify

SpecEcc == EccInit /\ [][EccNext]_vars

EccDone(scheme) == scenario.op = "ECC" /\ scenario.scheme = scheme /\ codec.pc = "done"

\* C26: scheme crc16 compares CRC16-CCITT of the page with the two bytes at the
\* configured OOB offset: no error when equal, [-1] when not, data unchanged.
C26_Crc16AtConfiguredOffset ==
    (EccDone("crc16") /\ Len(scenario.oob) >= scenario.oob_offset + 2) =>
        /\ codec.data = scenario.data
        /\ codec.errors =
              IF Crc16Ccitt(scenario.data)
                   = FromLe16(PySlice(scenario.oob, scenario.oob_offset,
                                      scenario.oob_offset + 2))
              THEN <<>> ELSE <<-1>>

\* C27: the code of a blank sector is FF FF FF, and a sector that differs in
\* one byte from the sector whose code is stored is listed as an error.
C27_SingleByteChangeDetected ==
    /\ CalcHamming(BlankSector) = <<255, 255, 255>>
    /\ (EccDone("hamming_512_3byte") /\ scenario.bytes_per_sector = 3
          /\ scenario.data # scenario.original) => codec.errors = <<0>>

(***************************************************************************)
(* The device's two CRC32 routines and the host's zlib.crc32 on the same   *)
(* bytes                                                                   *)
(***************************************************************************)
MaxCrcLen == 3
CrcBytes == {0, 97, 128, 255}
\* b"123456789"
CheckString == <<49, 50, 51, 52, 53, 54, 55, 56, 57>>
CrcInputs == UNION { [1..n -> CrcBytes] : n \in 0..MaxCrcLen } \cup {CheckString}

CrcIdle == [chunk_hash |-> NoCrc, frame_crc |-> NoCrc, zlib |-> NoCrc]

CrcInit ==
    /\ \E d \in CrcInputs : scenario = [op |-> "CRC", data |-> d]
    /\ codec = CrcIdle
    /\ dev = DevParked
    /\ host = HostIdle
    /\ resumeFile = FileAbsent
    /\ wire = <<>>
    /\ toDev = <<>>

\* The device hashes a page buffer: calculate_chunk_hash(data)
DevHashesChunk ==
    /\ codec.chunk_hash = NoCrc
    /\ codec' = [codec EXCEPT !.chunk_hash = CalculateChunkHash(scenario.data)]
    /\ UNCHANGED <<resumeFile, host, wire, toDev, scenario, dev>>

\* The device computes the CRC of a frame body: _crc32(data)
DevCrcsFrame ==
    /\ codec.frame_crc = NoCrc
    /\ codec' = [codec EXCEPT !.frame_crc = Dev_crc32(scenario.data)]
    /\ UNCHANGED <<resumeFile, host, wire, toDev, scenario, dev>>

\* The host computes zlib.crc32(data) & 0xFFFFFFFF
HostCrcs ==
    /\ codec.zlib = NoCrc
    /\ codec' = [codec EXCEPT !.zlib = Crc32(scenario.data)]
    /\ UNCHANGED <<resumeFile, host, wire, toDev, scenario, dev>>

CrcNext == DevHashesChunk \/ DevCrcsFrame \/ HostCrcs

SpecCrc == CrcInit /\ [][CrcNext]_vars

\* The IEEE CRC32 of the inputs whose value is published: empty, 00, "a",
\* "123456789" (0, 0xD202EF8D, 0xE8B7BE43, 0xCBF43926)
KnownCrc(d) ==
    IF d = <<>> THEN <<0, 0, 0, 0>>
    ELSE IF d = <<0>> THEN <<141, 239, 2, 210>>
    ELSE IF d = <<97>> THEN <<67, 190, 183, 232>>
    ELSE IF d = CheckString THEN <<38, 57, 244, 203>>
    ELSE NoCrc

\* C28: both CRC32 routines of the device give, as four bytes of an unsigned
\* 32-bit value, what the host's zlib.crc32 gives for the same bytes, the
\* published values included; the empty input gives 0.
C28_DeviceCrcIsIeee ==
    \A v \in {codec.chunk_hash, codec.frame_crc} :
        v # NoCrc =>
            /\ v \in U32
            /\ v = Crc32(scenario.data)
            /\ KnownCrc(scenario.data) # NoCrc => v = KnownCrc(scenario.data)
            /\ scenario.data = <<>> => v = <<0, 0, 0, 0>>

C28_Witness ==
    /\ scenario.op = "CRC" /\ Len(scenario.data) = MaxCrcLen
    /\ codec.chunk_hash # NoCrc /\ codec.frame_crc # NoCrc
    /\ codec.zlib = codec.chunk_hash

(***************************************************************************)
(* The device's run-length coding: compress_data and decompress_data of    *)
(* pico/main_performance.py, use_compression = True                        *)
(***************************************************************************)
MaxRleLen == 5
RleBytes == {0, 1, 7}
RleInputs == UNION { [1..n -> RleBytes] : n \in 0..MaxRleLen }

\* The inner loop of compress_data: the length of the run that starts the
\* data, 255 at most
RECURSIVE RunLength(_, _)
RunLength(d, count) ==
    IF count < Len(d) /\ d[count + 1] = d[1] /\ count < 255
    THEN RunLength(d, count + 1) ELSE count

\* The outer loop of compress_data: a run of four or more becomes
\* 0x00, count, value; any other byte is copied
RECURSIVE RleEncode(_)
RleEncode(d) ==
    IF d = <<>> THEN <<>>
    ELSE LET count == RunLength(d, 1)
         IN  IF count > 3 THEN <<0, count, d[1]>> \o RleEncode(Drop(d, count))
             ELSE <<d[1]>> \o RleEncode(Tail(d))

\* compress_data(data)
CompressData(data) ==
    IF Len(data) < 4 THEN data
    ELSE IF Len(RleEncode(data)) < Len(data) THEN RleEncode(data) ELSE data

RleIdle == [pc |-> "idle", compressed |-> <<>>, decompressed |-> <<>>]

RleInit ==
    /\ \E d \in RleInputs : scenario = [op |-> "RLE", data |-> d]
    /\ codec = RleIdle
    /\ dev = DevParked
    /\ host = HostIdle
    /\ resumeFile = FileAbsent
    /\ wire = <<>>
    /\ toDev = <<>>

RleCompress ==
    /\ codec.pc = "idle"
    /\ codec' = [codec EXCEPT !.pc = "compressed",
                              !.compressed = CompressData(scenario.data)]
    /\ UNCHANGED <<resumeFile, host, wire, toDev, scenario, dev>>

RleDecompress ==
    /\ codec.pc = "compressed"
    /\ codec' = [codec EXCEPT !.pc = "decompressed",
                              !.decompressed = DecompressData(codec.compressed)]
    /\ UNCHANGED <<resumeFile, host, wire, toDev, scenario, dev>>

RleNext == RleCompress \/ RleDecompress

SpecRle == RleInit /\ [][RleNext]_vars

\* C29: decompress_data(compress_data(d)) = d for every byte sequence d.
C29_RoundTrip ==
    (scenario.op = "RLE" /\ codec.pc = "decompressed") =>
        codec.decompressed = scenario.data

\* ---------------------------------------------------------------------------
\* The bus driver of pico/main.py: the control pins CLE, ALE, CE#, RE#, WE#
\* and the order in which read_nand_id, read_page, write_page and erase_block
\* write them.  One step of the model is one write of one pin.
\* ---------------------------------------------------------------------------

\* Bytes of a page and of its spare area on the modelled chip
MaxBusPage == 2
MaxBusSpare == 1

\* The control pins as the constructor leaves them
PinsIdle == [cle |-> 0, ale |-> 0, ce |-> 1, re |-> 1, we |-> 1]

PinWrite(pin, v) == [pin |-> pin, v |-> v]

RECURSIVE Repeat(_, _)
Repeat(steps, n) == IF n = 0 THEN <<>> ELSE steps \o Repeat(steps, n - 1)

\* write_byte: the data is put on the I/O pins, then one WE# pulse
WriteByte == <<PinWrite("we", 0), PinWrite("we", 1)>>

\* read_byte: one RE# pulse around the sampling of the I/O pins
ReadByte == <<PinWrite("re", 0), PinWrite("re", 1)>>

SendAddressCycles(cycles) ==
    <<PinWrite("ale", 1)>> \o Repeat(WriteByte, cycles) \o <<PinWrite("ale", 0)>>

\* send_command asserts CE# and leaves it asserted
SendCommand ==
    <<PinWrite("ce", 0), PinWrite("cle", 1)>> \o WriteByte \o <<PinWrite("cle", 0)>>

ReleaseCe == <<PinWrite("ce", 1)>>

\* read_status without its release of CE#
ReadStatusKeepsCe == SendCommand \o ReadByte

ReadStatus == SendCommand \o ReadByte \o ReleaseCe

\* What can happen to a driver call: it succeeds, R/B# stays low until the
\* timeout, the status register reports a failure, or the caller's buffer is
\* shorter than page plus spare and indexing it raises
BusOutcomes == {"ok", "timeout", "status", "short"}

ReadNandId(outcome) ==
    SendCommand \o <<PinWrite("ale", 1)>> \o WriteByte \o <<PinWrite("ale", 0)>>
    \o (IF outcome = "timeout" THEN ReleaseCe
        ELSE Repeat(ReadByte, 6) \o ReleaseCe)

BusReadPage(outcome) ==
    SendCommand \o SendAddressCycles(5) \o SendCommand
    \o (CASE outcome = "timeout" -> ReleaseCe
          [] outcome = "short" -> Repeat(ReadByte, MaxBusPage + 1) \o ReleaseCe
          [] OTHER -> Repeat(ReadByte, MaxBusPage) \o Repeat(ReadByte, MaxBusSpare)
                      \o ReleaseCe)

BusWritePage(outcome) ==
    SendCommand \o SendAddressCycles(5) \o Repeat(WriteByte, MaxBusPage)
    \o (CASE outcome = "short" -> ReleaseCe
          [] outcome = "timeout" ->
                Repeat(WriteByte, MaxBusSpare) \o SendCommand \o ReleaseCe
          [] outcome = "status" ->
                Repeat(WriteByte, MaxBusSpare) \o SendCommand \o ReadStatus
          [] OTHER ->
                Repeat(WriteByte, MaxBusSpare) \o SendCommand \o ReadStatus
                \o ReleaseCe)

BusEraseBlock(outcome) ==
    SendCommand \o SendAddressCycles(3) \o SendCommand
    \o (CASE outcome = "timeout" -> ReleaseCe
          [] outcome = "status" -> ReadStatus
          [] OTHER -> ReadStatus \o ReleaseCe)

\* The calls of the driver and the outcomes each of them has a path for
BusCalls ==
    ({"read_nand_id"} \X {"ok", "timeout"})
    \cup ({"read_page"} \X {"ok", "timeout", "short"})
    \cup ({"write_page"} \X BusOutcomes)
    \cup ({"erase_block"} \X {"ok", "timeout", "status"})

BusProgram(op, outcome) ==
    CASE op = "read_nand_id" -> ReadNandId(outcome)
      [] op = "read_page" -> BusReadPage(outcome)
      [] op = "write_page" -> BusWritePage(outcome)
      [] OTHER -> BusEraseBlock(outcome)

BusIdle == [pc |-> "idle", op |-> "none", outcome |-> "none", prog |-> <<>>,
            pins |-> PinsIdle, selected |-> FALSE, calls |-> 0]

BusInit ==
    /\ dev = BusIdle
    /\ scenario = [op |-> "BUS"]
    /\ codec = CodecIdle
    /\ host = HostIdle
    /\ resumeFile = FileAbsent
    /\ wire = <<>>
    /\ toDev = <<>>

\* A driver call is entered
BusCall(op, outcome) ==
    /\ dev.pc = "idle"
    /\ dev' = [dev EXCEPT !.pc = "call", !.op = op, !.outcome = outcome,
                          !.prog = BusProgram(op, outcome),
                          !.selected = FALSE, !.calls = 1]
    /\ UNCHANGED <<resumeFile, host, wire, toDev, scenario, codec>>

\* The next pin write of the call
BusPinWrite ==
    /\ dev.pc = "call"
    /\ dev.prog # <<>>
    /\ LET w == Head(dev.prog) IN
       dev' = [dev EXCEPT !.prog = Tail(@),
                          !.pins = [@ EXCEPT ![w.pin] = w.v],
                          !.selected = @ \/ w.pin = "ce"]
    /\ UNCHANGED <<resumeFile, host, wire, toDev, scenario, codec>>

\* The call returns
BusReturn ==
    /\ dev.pc = "call"
    /\ dev.prog = <<>>
    /\ dev' = [dev EXCEPT !.pc = "idle"]
    /\ UNCHANGED <<resumeFile, host, wire, toDev, scenario, codec>>

BusNext ==
    \/ \E c \in BusCalls : BusCall(c[1], c[2])
    \/ BusPinWrite
    \/ BusReturn

SpecBus == BusInit /\ [][BusNext]_vars

\* A bus cycle of the call is still to come
CyclesLeft ==
    \E i \in 1..Len(dev.prog) : dev.prog[i].pin # "ce"

\* C32: whenever the bus driver is idle, before and after every driver call and
\* on every one of its paths, CLE = ALE = 0 and CE# = RE# = WE# = 1; inside a
\* call CE# stays asserted from the first command cycle for as long as the call
\* has bus cycles left.
C32_BusPinDiscipline ==
    /\ (scenario.op = "BUS" /\ dev.pc = "idle") => dev.pins = PinsIdle
    /\ (scenario.op = "BUS" /\ dev.pc = "call" /\ dev.selected /\ CyclesLeft) =>
           dev.pins.ce = 0

\* A call that failed has returned
C32_Witness ==
    /\ scenario.op = "BUS"
    /\ dev.pc = "idle"
    /\ dev.calls = 1
    /\ dev.outcome \in {"timeout", "status", "short"}

\* ---------------------------------------------------------------------------
\* Chip detection of pico/main.py: the registry supported_nand, in the order
\* of the source, and detect_nand, which returns the first entry whose id
\* bytes begin the ID read from the chip.
\* ---------------------------------------------------------------------------

SupportedNand ==
    <<
    [name |-> "Samsung K9F4G08U0A", id |-> <<236, 211>>,
     page_size |-> 2048, block_size |-> 128, blocks |-> 4096],
    [name |-> "Samsung K9F1G08U0A", id |-> <<236, 241>>,
     page_size |-> 2048, block_size |-> 128, blocks |-> 2048],
    [name |-> "Samsung K9F1G08R0A", id |-> <<236, 241>>,
     page_size |-> 2048, block_size |-> 64, blocks |-> 2048],
    [name |-> "Samsung K9GAG08U0M", id |-> <<236, 213>>,
     page_size |-> 4096, block_size |-> 256, blocks |-> 8192],
    [name |-> "Samsung K9T1G08U0M", id |-> <<236, 241>>,
     page_size |-> 2048, block_size |-> 128, blocks |-> 1024],
    [name |-> "Samsung K9F2G08U0M", id |-> <<236, 218>>,
     page_size |-> 2048, block_size |-> 128, blocks |-> 2048],
    [name |-> "Hynix HY27US08281A", id |-> <<173, 241>>,
     page_size |-> 2048, block_size |-> 128, blocks |-> 1024],
    [name |-> "Hynix H27UBG8T2A", id |-> <<173, 211>>,
     page_size |-> 4096, block_size |-> 256, blocks |-> 8192],
    [name |-> "Hynix HY27UF082G2B", id |-> <<173, 241>>,
     page_size |-> 2048, block_size |-> 128, blocks |-> 2048],
    [name |-> "Hynix H27U4G8F2D", id |-> <<173, 213>>,
     page_size |-> 4096, block_size |-> 256, blocks |-> 4096],
    [name |-> "Hynix H27U4G8F2DTR", id |-> <<173, 213>>,
     page_size |-> 4096, block_size |-> 256, blocks |-> 4096],
    [name |-> "Toshiba TC58NVG2S3E", id |-> <<152, 218>>,
     page_size |-> 2048, block_size |-> 128, blocks |-> 2048],
    [name |-> "Toshiba TC58NVG3S0F", id |-> <<152, 241>>,
     page_size |-> 4096, block_size |-> 256, blocks |-> 4096],
    [name |-> "Micron MT29F4G08ABA", id |-> <<44, 220>>,
     page_size |-> 4096, block_size |-> 256, blocks |-> 4096],
    [name |-> "Micron MT29F8G08ABACA", id |-> <<44, 104>>,
     page_size |-> 4096, block_size |-> 256, blocks |-> 8192],
    [name |-> "Intel JS29F32G08AAMC1", id |-> <<137, 211>>,
     page_size |-> 4096, block_size |-> 256, blocks |-> 8192],
    [name |-> "Intel JS29F64G08ACMF3", id |-> <<137, 215>>,
     page_size |-> 4096, block_size |-> 256, blocks |-> 16384],
    [name |-> "SanDisk SDTNQGAMA-008G", id |-> <<69, 215>>,
     page_size |-> 4096, block_size |-> 256, blocks |-> 8192]
    >>

\* read_nand_id returns the first ID_BYTES bytes read
ID_BYTES == 4

\* The ID read_nand_id returns when R/B# does not go high in time
TimeoutId == <<255, 255, 255, 255>>

\* (None, None)
NoChip == [name |-> "", id |-> <<>>, page_size |-> 0, block_size |-> 0, blocks |-> 0]

\* nand_id[:len(info["id"])] == info["id"]
IdMatches(nand_id, info) == Take(nand_id, Len(info.id)) = info.id

\* for name, info in self.supported_nand.items(): the first match is returned
LookupNand(nand_id) ==
    LET hits == {i \in 1..Len(SupportedNand) : IdMatches(nand_id, SupportedNand[i])}
    IN  IF hits = {} THEN NoChip
        ELSE SupportedNand[CHOOSE i \in hits : \A j \in hits : i <= j]

\* Third and fourth ID byte of the chips tried
IdTails == {<<0, 0>>, <<16, 149>>, <<255, 255>>}

\* Manufacturer and device bytes no registry entry has
UnknownIds == {<<1, 241>>, <<236, 0>>, <<0, 0>>, <<255, 236>>}

\* The chip on the bus: entry chip of the registry with one of the tails, or
\* (chip = 0) a chip the registry does not know; its ID read may time out
LookupRuns ==
    { [op |-> "LOOKUP", chip |-> k, id |-> SupportedNand[k].id \o t, timeout |-> to] :
        k \in 1..Len(SupportedNand), t \in IdTails, to \in BOOLEAN }
    \cup { [op |-> "LOOKUP", chip |-> 0, id |-> u \o t, timeout |-> to] :
        u \in UnknownIds, t \in IdTails, to \in BOOLEAN }

LookupIdle == [pc |-> "idle", nand_id |-> <<>>, current_nand |-> NoChip]

LookupInit ==
    /\ \E sc \in LookupRuns : scenario = sc
    /\ dev = LookupIdle
    /\ codec = CodecIdle
    /\ host = HostIdle
    /\ resumeFile = FileAbsent
    /\ wire = <<>>
    /\ toDev = <<>>

\* read_nand_id: the ID of the chip, or the sentinel after the ready time-out
LookupReadId ==
    /\ dev.pc = "idle"
    /\ dev' = [dev EXCEPT !.pc = "id_read",
                          !.nand_id = IF scenario.timeout THEN TimeoutId
                                      ELSE Take(scenario.id, ID_BYTES)]
    /\ UNCHANGED <<resumeFile, host, wire, toDev, scenario, codec>>

\* detect_nand after read_nand_id
LookupDetect ==
    /\ dev.pc = "id_read"
    /\ dev' = [dev EXCEPT !.pc = "detected", !.current_nand = LookupNand(dev.nand_id)]
    /\ UNCHANGED <<resumeFile, host, wire, toDev, scenario, codec>>

LookupNext == LookupReadId \/ LookupDetect

SpecLookup == LookupInit /\ [][LookupNext]_vars

Geometry(info) == <<info.page_size, info.block_size, info.blocks>>

\* C39: detection of a chip whose ID begins with the id bytes of a registry
\* entry returns that entry, no other entry of the same id and another
\* geometry standing before it; an ID no entry matches, the all-0xFF ID of a
\* timed-out read included, gives no descriptor.
C39_LookupWellDefined ==
    (scenario.op = "LOOKUP" /\ dev.pc = "detected") =>
        IF scenario.timeout \/ scenario.chip = 0
        THEN dev.current_nand = NoChip
        ELSE /\ dev.current_nand # NoChip
             /\ Geometry(dev.current_nand) = Geometry(SupportedNand[scenario.chip])

====
